---- MODULE Spec2Model ----
(***************************************************************************)
(* Client-side load-balanced selection of kratos: the Default selector     *)
(* (Apply / Select over an atomic node set), the HTTP resolver             *)
(* (newResolver, its bootstrap helper and background task, update) and     *)
(* the etcd watcher (Next / Stop) it drives.                               *)
(***************************************************************************)
EXTENDS Integers, Sequences, FiniteSets, TLC

\* ------------------------------------------------------------------ bounds
MaxApply == 2      \* Apply calls in one behaviour
MaxSelect == 2     \* Select calls in one behaviour

\* ------------------------------------------------------------- the values
Nil == {}
Some(x) == {x}

\* selector.Node values (immutable): address + version.
NodeA == [addr |-> "a", version |-> "v1"]
NodeB == [addr |-> "b", version |-> "v2"]
NodeC == [addr |-> "c", version |-> "v1"]

\* The node lists handed to Default.Apply.
ApplyInputs == { <<NodeB, NodeA, NodeC>>, <<NodeA>>, <<>> }

Appliers == {"ap1", "ap2"}
Selectors == {"s1"}

\* WeightedNodeBuilder.Build: a fresh weighted node wrapping n; (gen, idx) is
\* the identity of the object built by Apply call gen for its idx-th node.
Build(n, gen, idx) == [raw |-> n, gen |-> gen, idx |-> idx]

\* WeightedNode.Raw
RawSelf(wn) == wn
Raw(wn) == wn.raw

\* The loop of Default.Apply: one weighted node per given node, in order.
BuildAll(ns, gen) == [i \in 1..Len(ns) |-> Build(ns[i], gen, i)]

\* NodeFilter values a caller passes: each returns a sub-selection or a
\* reordering of its input.
Filters == {"version_v1", "first", "drop_all"}

RECURSIVE KeepVersion(_, _)
KeepVersion(s, v) ==
    IF s = <<>> THEN <<>>
    ELSE IF Head(s).raw.version = v THEN <<Head(s)>> \o KeepVersion(Tail(s), v)
    ELSE KeepVersion(Tail(s), v)

Filter(f, s) ==
    CASE f = "version_v1" -> KeepVersion(s, "v1")
      [] f = "first" -> IF s = <<>> THEN <<>> ELSE <<Head(s)>>
      [] f = "drop_all" -> <<>>

\* The arguments of a Select call: the NodeFilters of its options, and
\* whether its context carries a peer.
SelectArgs ==
    { [filters |-> <<>>, hasPeer |-> TRUE],
      [filters |-> <<"drop_all">>, hasPeer |-> FALSE],
      [filters |-> <<"version_v1">>, hasPeer |-> FALSE],
      [filters |-> <<"version_v1", "first">>, hasPeer |-> TRUE],
      [filters |-> <<"first", "version_v1">>, hasPeer |-> TRUE] }

Range(s) == {s[i] : i \in 1..Len(s)}

\* Balancer.Pick: ErrNoAvailable on an empty candidate slice; otherwise an
\* error, or one of the candidates (whose Pick() it then calls for the DoneFunc).
BalancerPick(cands) ==
    IF Len(cands) = 0 THEN {[err |-> "ErrNoAvailable", wn |-> Nil]}
    ELSE {[err |-> "ErrBalancer", wn |-> Nil]}
           \cup {[err |-> "nil", wn |-> Some(cands[i])] : i \in 1..Len(cands)}

VARIABLES
    nodes,      \* Default.nodes (atomic.Value): Nil, or Some(sequence of weighted nodes)
    ap,         \* per Apply caller: pc, input, gen, weightedNodes
    sel,        \* per Select caller: pc, arguments, locals, results
    reqs,       \* per weighted node (gen, idx): number of Pick() calls on it
    nApply,     \* Apply calls started
    nSelect,    \* Select calls started
    stored,     \* history: the gens of the snapshots stored, in store order
    built,      \* history: gen -> the node list Apply call gen was given
    cfg,        \* newResolver's arguments: block, insecure, subsetSize
    ctx,        \* the caller's context: "active", or its error once done
    w,          \* the etcd watcher: exists, first, ctx (its own context), stopBy
    reg,        \* the instances stored in etcd under the watched prefix
    watchChan,  \* w.watchChan: the watch responses not yet received
    main,       \* newResolver: pc and what it returned
    task,       \* the bootstrap helper and the background task: pc, Next's result
    doneCh,     \* the helper's done channel (capacity 1)
    upd,        \* history: the last call of resolver.update
    env,        \* the environment: events and fails so far, whether ctx ended before an update applied
    clock,      \* time.Now(), in units of 200ms
    en,         \* the EWMA node: its fields
    call,       \* per caller of the EWMA node: pc and the locals of Pick and its DoneFunc
    hist,       \* history of the EWMA node: Picks started, DoneFuncs finished, their samples
    dn,         \* the direct node: InitialWeight of its Node, lastPick, calls made, Weight()'s last result
    eq,         \* a call of ServiceInstance.Equal: receiver, argument, result
    mode,       \* the part of the program a run exercises
    sm,         \* a DoneFunc's choice of its success sample: DoneInfo.Err, the node's errHandler, the sample
    ld,         \* per caller of the EWMA node's load(): pc and locals
    app,        \* App.Run: its options, its position, the tasks of its errgroup, what it returned
    tele        \* per weighted node (gen, idx): number of DoneFunc invocations that updated its telemetry

selVars == <<nodes, ap, sel, reqs, nApply, nSelect, stored, built>>
resVars == <<cfg, ctx, w, reg, watchChan, main, task, doneCh, upd, env>>
nodeVars == <<clock, en, call, hist>>
moreVars == <<mode, sm, ld, app, tele>>
auxVars == <<dn, eq, mode, sm, ld, app, tele>>
vars == <<nodes, ap, sel, reqs, nApply, nSelect, stored, built,
          cfg, ctx, w, reg, watchChan, main, task, doneCh, upd, env,
          clock, en, call, hist, dn, eq, mode, sm, ld, app, tele>>

Keys == (1..(MaxApply + 1)) \X (1..3)

IdleSel ==
    [pc |-> "idle", filters |-> <<>>, hasPeer |-> FALSE, startSeq |-> 0,
     loaded |-> Nil, filterIn |-> <<>>,
     candidates |-> Nil, balCalls |-> 0, nodePicks |-> 0, balRet |-> Nil,
     node |-> Nil, done |-> Nil, err |-> "nil", peer |-> Nil, invoked |-> FALSE]

IdleAp == [pc |-> "idle", gen |-> 0, weightedNodes |-> <<>>]

NoWatcher == [exists |-> FALSE, first |-> TRUE, ctx |-> "active", stopBy |-> {}]
\* via: where in Next the call was when it returned.
TaskOff == [pc |-> "off", items |-> <<>>, err |-> "nil", hadErr |-> FALSE, via |-> "none"]
NoUpdate ==
    [n |-> 0, by |-> "none", services |-> <<>>, ok |-> FALSE, afterErr |-> FALSE,
     arg |-> Nil, kept |-> TRUE]

\* ---------------------------------------------------------------- EWMA node
\* Times are in units of 200ms.
MaxTime == 2
MaxPicks == 2
MaxPending == 2

\* time.Now().UnixNano() when the node is built: far from the zero the node's
\* stamp starts with.
Epoch == 40

\* math.Exp is kept to three decimals: a weight w is the integer 1000 * w.
WDen == 1000
\* math.Exp(-1/tau) for one unit of time, tau = 600ms.
ExpOne == 717

Callers == {"c1", "c2"}

\* DoneInfo.Err: nil, an error line 175 recognises, any other error.
DoneErrs == {"nil", "Canceled", "Other"}

\* Builder.ErrHandler: none, or one that reports the errors of the given set.
ErrHandlers == {Nil, Some({"Other"})}

\* ewma.Builder.Build
BuildEwmaNoBias(h) ==
    [lag |-> 0, success |-> 1000, inflight |-> 0, inflights |-> <<>>,
     stamp |-> 0, predictTs |-> 0, predict |-> 0, reqs |-> 0, lastPick |-> 0,
     errHandler |-> h]
BuildEwma(h) ==
    [lag |-> 0, success |-> 1000, inflight |-> 1, inflights |-> <<>>,
     stamp |-> 0, predictTs |-> 0, predict |-> 0, reqs |-> 0, lastPick |-> 0,
     errHandler |-> h]

IdleCall ==
    [pc |-> "idle", e |-> 0, start |-> 0, now |-> 0, sample |-> 0, w |-> 0,
     raw |-> 0, oldLag |-> 0, newLag |-> 0, oldSuc |-> 0, newSuc |-> 0]

\* picks: Picks started; pending: Picks made earlier whose DoneFunc is never
\* called; dones: DoneFuncs finished; comps: what each finished DoneFunc was
\* given.
NoHist == [picks |-> 0, pending |-> 0, dones |-> 0, comps |-> {}]

\* A node just built and nobody using it.
\* direct.Builder.Build on a Node whose InitialWeight() is iw; picks and dones
\* count the calls made, weight is what Weight() last returned.
BuildDirect(iw) ==
    [initialWeight |-> iw, lastPick |-> 0, picks |-> 0, dones |-> 0, weight |-> Nil]

\* No call of Equal.
NoEqual == [i |-> Nil, o |-> Nil, ret |-> Nil]

\* No success sample being chosen.
NoSample == [err |-> "nil", errHandler |-> Nil, sample |-> Nil]

Loaders == {"l1", "l2"}
IdleLoad == [pc |-> "idle", now |-> 0, avgLag |-> 0, last |-> 0, predict |-> 0]

\* App.Run not called.
NoApp == [pc |-> "off"]

MoreIdle ==
    /\ sm = NoSample
    /\ ld = [l \in Loaders |-> IdleLoad]
    /\ app = NoApp
    /\ tele = [k \in Keys |-> 0]

AuxIdle ==
    /\ dn = BuildDirect(Nil)
    /\ eq = NoEqual
    /\ MoreIdle

NodeIdle ==
    /\ AuxIdle
    /\ clock = Epoch
    /\ en = BuildEwma(Nil)
    /\ call = [c \in Callers |-> IdleCall]
    /\ hist = NoHist

\* The resolver before newResolver is called.
ResolverIdle ==
    /\ ctx = "active"
    /\ w = NoWatcher
    /\ watchChan = <<>>
    /\ main = [pc |-> "watch", err |-> "nil", branch |-> "none"]
    /\ task = [t \in {"helper", "bg"} |-> TaskOff]
    /\ doneCh = Nil
    /\ upd = NoUpdate
    /\ env = [events |-> 0, fails |-> 0, ctxFirst |-> FALSE]

InitSelector ==
    /\ mode = "selector"
    /\ cfg = [block |-> FALSE, insecure |-> TRUE, subsetSize |-> 0]
    /\ reg = <<>>
    /\ ResolverIdle
    /\ NodeIdle
    /\ nodes = Nil
    /\ ap = [a \in Appliers |-> IdleAp]
    /\ sel = [p \in Selectors |-> IdleSel]
    /\ reqs = [k \in Keys |-> 0]
    /\ nApply = 0
    /\ nSelect = 0
    /\ stored = <<>>
    /\ built = <<>>

\* ------------------------------------------------------------ Default.Apply
\* Lines 74-77: build the new slice locally.
ApplyCall(a, ns) ==
    /\ ap[a].pc = "idle"
    /\ nApply < MaxApply
    /\ nApply' = nApply + 1
    /\ ap' = [ap EXCEPT ![a] = [pc |-> "store", gen |-> nApply + 1,
                                weightedNodes |-> BuildAll(ns, nApply + 1)]]
    /\ built' = Append(built, ns)
    /\ UNCHANGED <<nodes, sel, reqs, nSelect, stored, resVars, nodeVars, auxVars>>

The(opt) == CHOOSE x \in opt : TRUE

\* What d.nodes.Store(weightedNodes) leaves in the atomic value.
StoreMixed(old, new) == Some((IF old = Nil THEN <<>> ELSE The(old)) \o new)
StoreOnce(old, new) == IF old = Nil THEN Some(new) ELSE old
Store(old, new) == Some(new)

\* Line 79: d.nodes.Store(weightedNodes), then return.
ApplyStore(a) ==
    /\ ap[a].pc = "store"
    /\ nodes' = Store(nodes, ap[a].weightedNodes)
    /\ stored' = Append(stored, ap[a].gen)
    /\ ap' = [ap EXCEPT ![a] = IdleAp]
    /\ UNCHANGED <<sel, reqs, nApply, nSelect, built, resVars, nodeVars, auxVars>>

\* ----------------------------------------------------------- Default.Select
\* Entry of Select(ctx, opts...): the NodeFilters of opts and whether ctx
\* carries a peer.
SelectCall(p, args) ==
    /\ sel[p].pc \in {"idle", "done"}
    /\ nSelect < MaxSelect
    /\ nSelect' = nSelect + 1
    /\ sel' = [sel EXCEPT ![p] = [IdleSel EXCEPT !.pc = "load", !.filters = args.filters,
                                  !.hasPeer = args.hasPeer, !.startSeq = Len(stored)]]
    /\ UNCHANGED <<nodes, ap, reqs, nApply, stored, built, resVars, nodeVars, auxVars>>

\* Line 55: len(candidates) == 0.
NeverEmpty(c) == FALSE
NoCandidates(c) == Len(c) = 0

\* Line 44: the slice handed to the next filter.
FilterInputOriginal(loaded, newNodes) == loaded
FilterInput(loaded, newNodes) == newNodes

\* Lines 47-50: the candidates after the filter loop.
CandidatesUnfiltered(loaded, newNodes) == loaded
CandidatesOf(loaded, newNodes) == newNodes

\* Lines 43-45: the filter loop from filter i on; the value of newNodes after it.
RECURSIVE FilterLoop(_, _, _, _)
FilterLoop(fs, i, loaded, newNodes) ==
    IF i > Len(fs) THEN newNodes
    ELSE FilterLoop(fs, i + 1, loaded, Filter(fs[i], FilterInput(loaded, newNodes)))

\* What each filter of the loop received, in call order.
RECURSIVE FilterArgs(_, _, _, _)
FilterArgs(fs, i, loaded, newNodes) ==
    IF i > Len(fs) THEN <<>>
    ELSE LET input == FilterInput(loaded, newNodes)
         IN <<input>> \o FilterArgs(fs, i + 1, loaded, Filter(fs[i], input))

\* Lines 29-53: load the node set, run the filters over a copy of it and take
\* their output as the candidates; without filters the candidates are the
\* loaded slice.
SelectLoad(p) ==
    /\ sel[p].pc = "load"
    /\ IF nodes = Nil
       THEN sel' = [sel EXCEPT ![p].pc = "done", ![p].err = "ErrNoAvailable"]
       ELSE IF Len(sel[p].filters) > 0
       THEN LET newNodes == FilterLoop(sel[p].filters, 1, The(nodes), The(nodes))
            IN sel' = [sel EXCEPT ![p].pc = "pick", ![p].loaded = nodes,
                                  ![p].filterIn = FilterArgs(sel[p].filters, 1, The(nodes), The(nodes)),
                                  ![p].candidates = Some(CandidatesOf(The(nodes), newNodes))]
       ELSE sel' = [sel EXCEPT ![p].pc = "pick", ![p].loaded = nodes,
                               ![p].candidates = nodes]
    /\ UNCHANGED <<nodes, ap, reqs, nApply, nSelect, stored, built, resVars, nodeVars, auxVars>>

\* Lines 55-58: no candidate.
SelectNoCandidate(p) ==
    /\ sel[p].pc = "pick"
    /\ NoCandidates(The(sel[p].candidates))
    /\ sel' = [sel EXCEPT ![p].pc = "done", ![p].err = "ErrNoAvailable"]
    /\ UNCHANGED <<nodes, ap, reqs, nApply, nSelect, stored, built, resVars, nodeVars, auxVars>>

\* Lines 60-63: Balancer.Pick fails.
SelectPickError(p) ==
    /\ sel[p].pc = "pick"
    /\ ~NoCandidates(The(sel[p].candidates))
    /\ \E r \in BalancerPick(The(sel[p].candidates)) :
          /\ r.err # "nil"
          /\ sel' = [sel EXCEPT ![p].pc = "done", ![p].balCalls = @ + 1,
                                ![p].balRet = Some([arg |-> The(sel[p].candidates), wn |-> Nil,
                                                    done |-> Nil, err |-> r.err]),
                                ![p].err = r.err]
    /\ UNCHANGED <<nodes, ap, reqs, nApply, nSelect, stored, built, resVars, nodeVars, auxVars>>

\* Lines 60-68: Balancer.Pick chooses wn and calls wn.Pick(); the peer of ctx,
\* if any, gets wn.Raw(); Select returns wn.Raw() and the DoneFunc.
SelectPick(p) ==
    /\ sel[p].pc = "pick"
    /\ ~NoCandidates(The(sel[p].candidates))
    /\ \E r \in BalancerPick(The(sel[p].candidates)) :
          /\ r.err = "nil"
          /\ LET wn == The(r.wn)
                 k == <<wn.gen, wn.idx>>
                 done == Some([gen |-> wn.gen, idx |-> wn.idx, n |-> reqs[k] + 1])
             IN /\ reqs' = [reqs EXCEPT ![k] = @ + 1]
                /\ sel' = [sel EXCEPT ![p].pc = "done", ![p].balCalls = @ + 1,
                                      ![p].nodePicks = @ + 1,
                                      ![p].balRet = Some([arg |-> The(sel[p].candidates), wn |-> r.wn,
                                                          done |-> done, err |-> "nil"]),
                                      ![p].peer = IF sel[p].hasPeer THEN Some(Raw(wn)) ELSE Nil,
                                      ![p].node = Some(Raw(wn)),
                                      ![p].done = done]
    /\ UNCHANGED <<nodes, ap, nApply, nSelect, stored, built, resVars, nodeVars, auxVars>>

NextSelector ==
    \/ \E a \in Appliers, ns \in ApplyInputs : ApplyCall(a, ns)
    \/ \E a \in Appliers : ApplyStore(a)
    \/ \E p \in Selectors, args \in SelectArgs : SelectCall(p, args)
    \/ \E p \in Selectors : SelectLoad(p)
    \/ \E p \in Selectors : SelectNoCandidate(p)
    \/ \E p \in Selectors : SelectPickError(p)
    \/ \E p \in Selectors : SelectPick(p)

SpecSelector == InitSelector /\ [][NextSelector]_vars

\* ------------------------------------------------- DoneFunc of a returned pick
\* The nodes the selector holds now.
CurrentNodes == IF nodes = Nil THEN <<>> ELSE The(nodes)

\* The weighted node a DoneFunc reports to: the node whose Pick returned it
\* (the closure of ewma Node.Pick holds n), whatever set the selector holds.
DoneTargetByAddr(d) ==
    LET same == {i \in 1..Len(CurrentNodes) :
                   CurrentNodes[i].raw.addr = built[d.gen][d.idx].addr}
    IN IF same = {} THEN <<d.gen, d.idx>>
       ELSE LET i == CHOOSE j \in same : TRUE
            IN <<CurrentNodes[i].gen, CurrentNodes[i].idx>>
DoneTarget(d) == <<d.gen, d.idx>>

\* The caller invokes the DoneFunc Select returned, once; tele counts the
\* completions each weighted node has been told of.
DoneInvoke(p) ==
    /\ sel[p].pc = "done"
    /\ sel[p].done # Nil
    /\ ~sel[p].invoked
    /\ sel' = [sel EXCEPT ![p].invoked = TRUE]
    /\ tele' = [tele EXCEPT ![DoneTarget(The(sel[p].done))] = @ + 1]
    /\ UNCHANGED <<nodes, ap, reqs, nApply, nSelect, stored, built, resVars, nodeVars,
                   dn, eq, mode, sm, ld, app>>

NextDone ==
    \/ \E a \in Appliers, ns \in ApplyInputs : ApplyCall(a, ns)
    \/ \E a \in Appliers : ApplyStore(a)
    \/ \E p \in Selectors, args \in SelectArgs : SelectCall(p, args)
    \/ \E p \in Selectors : SelectLoad(p)
    \/ \E p \in Selectors : SelectNoCandidate(p)
    \/ \E p \in Selectors : SelectPickError(p)
    \/ \E p \in Selectors : SelectPick(p)
    \/ \E p \in Selectors : DoneInvoke(p)

SpecDone == InitSelector /\ [][NextDone]_vars

\* ------------------------------------------------------------ the registry
MaxEvents == 1     \* changes of the registry's content in one behaviour
MaxFails == 1      \* failed etcd requests and failed watch responses in one behaviour

Ep(scheme, host) == [scheme |-> scheme, host |-> host]

\* registry.ServiceInstance values; an endpoint of scheme "bad" is a string
\* url.Parse rejects.
Ins1 == [id |-> "1", name |-> "svc", version |-> "v1",
         endpoints |-> <<Ep("grpc", "g1"), Ep("http", "h1")>>]
Ins2 == [id |-> "2", name |-> "svc", version |-> "v2",
         endpoints |-> <<Ep("grpc", "g2")>>]
Ins3 == [id |-> "3", name |-> "svc", version |-> "v1",
         endpoints |-> <<Ep("https", "s3"), Ep("http", "h3")>>]
Ins4 == [id |-> "4", name |-> "svc", version |-> "v1",
         endpoints |-> <<Ep("bad", ""), Ep("http", "h4")>>]
Ins5 == [id |-> "5", name |-> "other", version |-> "v1",
         endpoints |-> <<Ep("http", "h5")>>]

\* w.serviceName
ServiceName == "svc"

\* What etcd may hold under the watched prefix.
RegContents == { <<>>, <<Ins2, Ins4>>, <<Ins3, Ins5, Ins1>> }

\* The arguments newResolver is called with.
Configs ==
    { [block |-> TRUE, insecure |-> TRUE, subsetSize |-> 0],
      [block |-> TRUE, insecure |-> FALSE, subsetSize |-> 1],
      [block |-> FALSE, insecure |-> TRUE, subsetSize |-> 1],
      [block |-> FALSE, insecure |-> FALSE, subsetSize |-> 0] }

\* endpoint.Scheme("http", !r.insecure)
Scheme(insecure) == IF insecure THEN "http" ELSE "https"

\* endpoint.ParseEndpoint: the host of the first endpoint of the given scheme;
\* an endpoint that does not parse ends the search with an error.
RECURSIVE ParseEndpoint(_, _)
ParseEndpoint(eps, scheme) ==
    IF eps = <<>> THEN [host |-> "", err |-> FALSE]
    ELSE IF Head(eps).scheme = "bad" THEN [host |-> "", err |-> TRUE]
    ELSE IF Head(eps).scheme = scheme THEN [host |-> Head(eps).host, err |-> FALSE]
    ELSE ParseEndpoint(Tail(eps), scheme)

\* resolver.update lines 137-149: the instances with an endpoint of the scheme.
FilteredAll(services, insecure) == services
RECURSIVE Filtered(_, _)
Filtered(services, insecure) ==
    IF services = <<>> THEN <<>>
    ELSE LET ept == ParseEndpoint(Head(services).endpoints, Scheme(insecure))
         IN IF ept.err \/ ept.host = "" THEN Filtered(Tail(services), insecure)
            ELSE <<Head(services)>> \o Filtered(Tail(services), insecure)

\* subset.Subset(key, inss, num): inss itself when it has at most num
\* elements, else num of its elements, in some order.
Subset(inss, num) ==
    IF Len(inss) <= num THEN {inss}
    ELSE {[i \in 1..num |-> inss[f[i]]] :
            f \in {g \in [1..num -> 1..Len(inss)] : \A i, j \in 1..num : i # j => g[i] # g[j]}}

\* selector.NewNode("http", ept, ins)
NewNode(ept, ins) == [addr |-> ept, version |-> ins.version]

\* resolver.update lines 150-159: the node lists update may build.
UpdateNodes(services, insecure, subsetSize) ==
    LET filtered == Filtered(services, insecure)
        chosen == IF subsetSize # 0 THEN Subset(filtered, subsetSize) ELSE {filtered}
    IN {[i \in 1..Len(f) |-> NewNode(ParseEndpoint(f[i].endpoints, Scheme(insecure)).host, f[i])] :
          f \in chosen}

\* resolver.update line 161: len(nodes) == 0.
RefuseNever(ns) == FALSE
RefuseEmpty(ns) == Len(ns) = 0

\* resolver.update lines 161-167 for the node list ns built from services:
\* refuse an empty list, else Rebalancer.Apply(ns) (Default.Apply, run to its
\* end) and true. upd keeps what the call was given, what it passed to Apply,
\* what it returned and whether it left the selector's node set as it was.
Update(by, services, ns) ==
    /\ IF RefuseEmpty(ns)
       THEN UNCHANGED <<nodes, nApply>>
       ELSE /\ nodes' = Store(nodes, BuildAll(ns, nApply + 1))
            /\ nApply' = nApply + 1
    /\ upd' = [n |-> 1, by |-> by, services |-> services, ok |-> ~RefuseEmpty(ns),
               afterErr |-> task[by].hadErr,
               arg |-> IF RefuseEmpty(ns) THEN Nil ELSE Some(ns),
               kept |-> nodes' = nodes]
    /\ UNCHANGED <<stored, built>>

\* ------------------------------------------------------------ etcd watcher
\* watcher.Stop: w.cancel(), then w.watcher.Close().
StopNoCancel(by) == [w EXCEPT !.stopBy = @ \cup {by}]
Stop(by) ==
    [w EXCEPT !.ctx = IF @ = "active" THEN "Canceled" ELSE @, !.stopBy = @ \cup {by}]

\* watcher.getInstance lines 82-93: the instances of the watched service.
RECURSIVE OfService(_)
OfService(kvs) ==
    IF kvs = <<>> THEN <<>>
    ELSE IF Head(kvs).name # ServiceName THEN OfService(Tail(kvs))
    ELSE <<Head(kvs)>> \o OfService(Tail(kvs))

\* watcher.getInstance: kv.Get under w.ctx fails with the context's error once
\* w.ctx is done; otherwise it may fail or give the instances.
GetInstance ==
    IF w.ctx # "active"
    THEN {[items |-> <<>>, err |-> w.ctx, fail |-> 0]}
    ELSE {[items |-> OfService(reg), err |-> "nil", fail |-> 0]}
           \cup (IF env.fails < MaxFails
                 THEN {[items |-> <<>>, err |-> "RegistryError", fail |-> 1]} ELSE {})

\* watcher.reWatch: the errors RequestProgress may return.
ReWatchErrors ==
    IF w.ctx # "active" THEN {[items |-> <<>>, err |-> w.ctx, fail |-> 0]}
    ELSE IF env.fails < MaxFails THEN {[items |-> <<>>, err |-> "RegistryError", fail |-> 1]}
    ELSE {}

Tasks == {"helper", "bg"}

Returned(t, r) ==
    /\ task' = [task EXCEPT ![t].pc = "got", ![t].items = r.items, ![t].err = r.err,
                             ![t].via = task[t].pc]
    /\ env' = [env EXCEPT !.fails = @ + r.fail]

\* watcher.Next line 46: entered by task t, which reads w.first.
NextEnter(t) ==
    /\ task[t].pc = "call"
    /\ task' = [task EXCEPT ![t].pc = IF w.first THEN "inFirst" ELSE "inWait"]
    /\ UNCHANGED <<selVars, nodeVars, cfg, ctx, w, reg, watchChan, main, doneCh, upd, env, auxVars>>

\* watcher.Next lines 47-50: the first call fetches the instances.
NextFirst(t) ==
    /\ task[t].pc = "inFirst"
    /\ \E r \in GetInstance : Returned(t, r)
    /\ w' = [w EXCEPT !.first = FALSE]
    /\ UNCHANGED <<selVars, nodeVars, cfg, ctx, reg, watchChan, main, doneCh, upd, auxVars>>

\* watcher.Next lines 55-56: w.ctx is done.
NextWaitCtx(t) ==
    /\ task[t].pc = "inWait"
    /\ w.ctx # "active"
    /\ Returned(t, [items |-> <<>>, err |-> w.ctx, fail |-> 0])
    /\ UNCHANGED <<selVars, nodeVars, cfg, ctx, w, reg, watchChan, main, doneCh, upd, auxVars>>

\* watcher.Next lines 57-68: a watch response arrives (the channel of a done
\* context is closed); a failed one is answered by reWatch; then the instances
\* are fetched.
NextWaitEvent(t) ==
    /\ task[t].pc = "inWait"
    /\ watchChan # <<>> \/ w.ctx # "active"
    /\ LET resp == IF watchChan # <<>> THEN Head(watchChan) ELSE "closed"
           bad == resp # "ok"
       IN /\ watchChan' = IF bad THEN <<>> ELSE Tail(watchChan)
          /\ \E r \in (IF bad THEN ReWatchErrors ELSE {}) \cup GetInstance : Returned(t, r)
    /\ UNCHANGED <<selVars, nodeVars, cfg, ctx, w, reg, main, doneCh, upd, auxVars>>

\* ------------------------------------------------------------- environment
\* The caller's context is cancelled or passes its deadline; w.ctx is derived
\* from it (newWatcher line 35).
CtxDone(e) ==
    /\ ctx = "active"
    /\ ctx' = e
    /\ w' = [w EXCEPT !.ctx = IF w.exists /\ @ = "active" THEN e ELSE @]
    /\ env' = [env EXCEPT !.ctxFirst = (main.pc # "returned" /\ nApply = 0)]
    /\ UNCHANGED <<selVars, nodeVars, cfg, reg, watchChan, main, task, doneCh, upd, auxVars>>

\* The instances in etcd change; the watch delivers a response.
RegChange(r) ==
    /\ w.exists
    /\ r # reg
    /\ env.events < MaxEvents
    /\ reg' = r
    /\ env' = [env EXCEPT !.events = @ + 1]
    /\ watchChan' = IF w.ctx = "active" THEN Append(watchChan, "ok") ELSE watchChan
    /\ UNCHANGED <<selVars, nodeVars, cfg, ctx, w, main, task, doneCh, upd, auxVars>>

\* The watch delivers a failed response.
WatchError ==
    /\ w.exists
    /\ w.ctx = "active"
    /\ env.fails < MaxFails
    /\ env' = [env EXCEPT !.fails = @ + 1]
    /\ watchChan' = Append(watchChan, "err")
    /\ UNCHANGED <<selVars, nodeVars, cfg, ctx, w, reg, main, task, doneCh, upd, auxVars>>

\* -------------------------------------------------------------- newResolver
\* Line 64 fails: discovery.Watch (newWatcher, RequestProgress) returns an error.
NewResolverWatchFails ==
    /\ main.pc = "watch"
    /\ \/ /\ ctx # "active"
          /\ main' = [pc |-> "returned", err |-> ctx, branch |-> "watch"]
          /\ env' = env
       \/ /\ ctx = "active"
          /\ env.fails < MaxFails
          /\ main' = [pc |-> "returned", err |-> "RegistryError", branch |-> "watch"]
          /\ env' = [env EXCEPT !.fails = @ + 1]
    /\ UNCHANGED <<selVars, nodeVars, cfg, ctx, w, reg, watchChan, task, doneCh, upd, auxVars>>

\* Lines 64-94 and 113-130: the watcher is created; with block the helper is
\* started and newResolver waits, else the background task is started and
\* newResolver returns.
NewResolverWatch ==
    /\ main.pc = "watch"
    /\ w' = [exists |-> TRUE, first |-> TRUE, ctx |-> ctx, stopBy |-> {}]
    /\ IF cfg.block
       THEN /\ task' = [task EXCEPT !["helper"].pc = "call"]
            /\ main' = [main EXCEPT !.pc = "select"]
       ELSE /\ task' = [task EXCEPT !["bg"].pc = "call"]
            /\ main' = [pc |-> "returned", err |-> "nil", branch |-> "none"]
    /\ UNCHANGED <<selVars, nodeVars, cfg, ctx, reg, watchChan, doneCh, upd, env, auxVars>>

\* Line 98: the result received from done lets newResolver go on.
BootstrapAny(err) == TRUE
BootstrapOk(err) == err = "nil"

\* Lines 96-103 and 113-130: the helper's result is received; an error stops
\* the watcher and is returned, nil starts the background task.
NewResolverDone ==
    /\ main.pc = "select"
    /\ doneCh # Nil
    /\ doneCh' = Nil
    /\ IF ~BootstrapOk(The(doneCh))
       THEN /\ w' = Stop("newResolver")
            /\ main' = [pc |-> "returned", err |-> The(doneCh), branch |-> "done"]
            /\ task' = task
       ELSE /\ w' = w
            /\ main' = [pc |-> "returned", err |-> "nil", branch |-> "done"]
            /\ task' = [task EXCEPT !["bg"].pc = "call"]
    /\ UNCHANGED <<selVars, nodeVars, cfg, ctx, reg, watchChan, upd, env, auxVars>>

\* Lines 104-110: the caller's context is done.
NewResolverCtx ==
    /\ main.pc = "select"
    /\ ctx # "active"
    /\ w' = Stop("newResolver")
    /\ main' = [pc |-> "returned", err |-> ctx, branch |-> "ctx"]
    /\ UNCHANGED <<selVars, nodeVars, cfg, ctx, reg, watchChan, task, doneCh, upd, env, auxVars>>

\* resolver.Close, on the resolver newResolver returned.
Close ==
    /\ main.pc = "returned"
    /\ main.err = "nil"
    /\ "Close" \notin w.stopBy
    /\ w' = Stop("Close")
    /\ UNCHANGED <<selVars, nodeVars, cfg, ctx, reg, watchChan, main, task, doneCh, upd, env, auxVars>>

\* Line 89-91: whether the helper reports success after update's result.
HelperDoneAlways(ok) == TRUE
HelperDone(ok) == ok

\* Lines 84-87: the helper passes Next's error on and ends.
HelperError ==
    /\ task["helper"].pc = "got"
    /\ task["helper"].err # "nil"
    /\ doneCh' = Some(task["helper"].err)
    /\ task' = [task EXCEPT !["helper"].pc = "exited"]
    /\ UNCHANGED <<selVars, nodeVars, cfg, ctx, w, reg, watchChan, main, upd, env, auxVars>>

\* Lines 89-92: the helper returns after it has sent nil and else calls Next
\* again.
HelperLoops(sent) == "call"
HelperNext(sent) == IF sent THEN "exited" ELSE "call"

\* Lines 89-92: the helper updates; a successful update ends it.
HelperUpdate ==
    /\ task["helper"].pc = "got"
    /\ task["helper"].err = "nil"
    /\ \E ns \in UpdateNodes(task["helper"].items, cfg.insecure, cfg.subsetSize) :
          /\ Update("helper", task["helper"].items, ns)
          /\ IF HelperDone(upd'.ok)
             THEN /\ doneCh' = Some("nil")
                  /\ task' = [task EXCEPT !["helper"].pc = HelperNext(TRUE)]
             ELSE /\ doneCh' = doneCh
                  /\ task' = [task EXCEPT !["helper"].pc = HelperNext(FALSE)]
    /\ UNCHANGED <<ap, sel, reqs, nSelect, nodeVars, cfg, ctx, w, reg, watchChan, main, env, auxVars>>

\* Line 119: errors.Is(err, context.Canceled).
AnyError(err) == TRUE
NoError(err) == FALSE
IsCanceled(err) == err = "Canceled"

\* Lines 118-125: the background task ends on cancellation and otherwise
\* sleeps before the next call.
BgError ==
    /\ task["bg"].pc = "got"
    /\ task["bg"].err # "nil"
    /\ task' = [task EXCEPT !["bg"].pc = IF IsCanceled(task["bg"].err) THEN "exited" ELSE "sleep",
                            !["bg"].hadErr = TRUE]
    /\ UNCHANGED <<selVars, nodeVars, cfg, ctx, w, reg, watchChan, main, doneCh, upd, env, auxVars>>

\* Lines 123-124: time.Sleep(time.Second) is over.
BgWake ==
    /\ task["bg"].pc = "sleep"
    /\ task' = [task EXCEPT !["bg"].pc = "call"]
    /\ UNCHANGED <<selVars, nodeVars, cfg, ctx, w, reg, watchChan, main, doneCh, upd, env, auxVars>>

\* Line 127: the background task updates.
BgUpdate ==
    /\ task["bg"].pc = "got"
    /\ task["bg"].err = "nil"
    /\ \E ns \in UpdateNodes(task["bg"].items, cfg.insecure, cfg.subsetSize) :
          Update("bg", task["bg"].items, ns)
    /\ task' = [task EXCEPT !["bg"].pc = "call"]
    /\ UNCHANGED <<ap, sel, reqs, nSelect, nodeVars, cfg, ctx, w, reg, watchChan, main, doneCh, env, auxVars>>

InitResolver ==
    /\ mode = "resolver"
    /\ cfg \in Configs
    /\ reg \in RegContents
    /\ ResolverIdle
    /\ NodeIdle
    /\ nodes = Nil
    /\ ap = [a \in Appliers |-> IdleAp]
    /\ sel = [p \in Selectors |-> IdleSel]
    /\ reqs = [k \in Keys |-> 0]
    /\ nApply = 0
    /\ nSelect = 0
    /\ stored = <<>>
    /\ built = <<>>

BgStep ==
    \/ NextEnter("bg")
    \/ NextFirst("bg")
    \/ NextWaitCtx("bg")
    \/ NextWaitEvent("bg")
    \/ BgError
    \/ BgWake
    \/ BgUpdate

HelperStep ==
    \/ NextEnter("helper")
    \/ NextFirst("helper")
    \/ NextWaitCtx("helper")
    \/ NextWaitEvent("helper")
    \/ HelperError
    \/ HelperUpdate

NextResolver ==
    \/ NewResolverWatchFails
    \/ NewResolverWatch
    \/ NewResolverDone
    \/ NewResolverCtx
    \/ Close
    \/ HelperStep
    \/ BgStep
    \/ \E e \in {"Canceled", "DeadlineExceeded"} : CtxDone(e)
    \/ \E r \in RegContents : RegChange(r)
    \/ WatchError

SpecResolver == InitResolver /\ [][NextResolver]_vars

\* The background task is scheduled whenever it can take a step.
SpecResolverLive ==
    /\ InitResolver
    /\ [][NextResolver]_vars
    /\ WF_vars(BgStep)

\* Every goroutine that calls Next is scheduled whenever it can take a step.
SpecWatcherLive ==
    InitResolver /\ [][NextResolver]_vars /\ WF_vars(BgStep) /\ WF_vars(HelperStep)

\* ------------------------------------------- resolver.update on a snapshot
MaxServices == 3

\* An instance whose endpoint of scheme http has no host.
Ins6 == [id |-> "6", name |-> "svc", version |-> "v2",
         endpoints |-> <<Ep("http", ""), Ep("https", "s6")>>]

\* The snapshots update is given: the instances are distinct.
Snapshots ==
    UNION {{q \in [1..n -> {Ins1, Ins2, Ins3, Ins4, Ins6}] :
              \A i, j \in 1..n : i # j => q[i] # q[j]} : n \in 0..MaxServices}

InitUpdate ==
    /\ mode = "update"
    /\ cfg \in Configs
    /\ reg = <<>>
    /\ ctx = "active"
    /\ w = NoWatcher
    /\ watchChan = <<>>
    /\ main = [pc |-> "watch", err |-> "nil", branch |-> "none"]
    /\ task = [t \in {"helper", "bg"} |-> TaskOff]
    /\ doneCh = Nil
    /\ env = [events |-> 0, fails |-> 0, ctxFirst |-> FALSE]
    /\ \E q \in Snapshots : upd = [NoUpdate EXCEPT !.services = q]
    /\ nodes = Nil
    /\ ap = [a \in Appliers |-> IdleAp]
    /\ sel = [p \in Selectors |-> IdleSel]
    /\ reqs = [k \in Keys |-> 0]
    /\ nApply = 0
    /\ nSelect = 0
    /\ stored = <<>>
    /\ built = <<>>
    /\ NodeIdle

\* r.update(services), lines 135-168, called once with the snapshot.
UpdateCall ==
    /\ upd.n = 0
    /\ \E ns \in UpdateNodes(upd.services, cfg.insecure, cfg.subsetSize) :
          Update("bg", upd.services, ns)
    /\ UNCHANGED <<ap, sel, reqs, nSelect, nodeVars, cfg, ctx, w, reg, watchChan,
                   main, task, doneCh, env, auxVars>>

NextUpdate == UpdateCall

SpecUpdate == InitUpdate /\ [][NextUpdate]_vars

\* ------------------------------------------------------ EWMA node: Pick
\* The node after k Picks at time Epoch whose DoneFuncs are still to come.
WithPending(n, k) ==
    [n EXCEPT !.inflight = @ + k, !.reqs = @ + k,
              !.lastPick = IF k > 0 THEN Epoch ELSE @,
              !.inflights = [i \in 1..k |-> [e |-> i, value |-> Epoch]]]

\* The nodes a run starts with: the builder's handler, the Picks pending.
EwmaInits ==
    { [errHandler |-> Nil, pending |-> 0],
      [errHandler |-> Some({"Other"}), pending |-> MaxPending] }

SelectorIdle ==
    /\ nodes = Nil
    /\ ap = [a \in Appliers |-> IdleAp]
    /\ sel = [p \in Selectors |-> IdleSel]
    /\ reqs = [k \in Keys |-> 0]
    /\ nApply = 0
    /\ nSelect = 0
    /\ stored = <<>>
    /\ built = <<>>

InitEwma ==
    /\ mode = "node"
    /\ cfg = [block |-> FALSE, insecure |-> TRUE, subsetSize |-> 0]
    /\ reg = <<>>
    /\ ResolverIdle
    /\ SelectorIdle
    /\ clock = Epoch
    /\ \E i \in EwmaInits :
          /\ en = WithPending(BuildEwma(i.errHandler), i.pending)
          /\ hist = [NoHist EXCEPT !.picks = i.pending, !.pending = i.pending]
    /\ call = [c \in Callers |-> IdleCall]
    /\ AuxIdle

\* What time.Now() may return: the time last read, or a later one.
Nows == {t \in {clock, clock + 1} : t <= Epoch + MaxTime}

\* atomic.AddInt64
AddDropped(v, d) == v
AtomicAdd(v, d) == v + d

\* Lines 125-129: now := time.Now().UnixNano() gives t; lastPick is stored,
\* inflight and reqs are incremented (lastPick and reqs are read by nothing
\* that acts on the node).
PickAdd(c, t) ==
    /\ call[c].pc = "idle"
    /\ hist.picks - hist.pending < MaxPicks
    /\ clock' = t
    /\ en' = [en EXCEPT !.lastPick = t, !.inflight = AtomicAdd(@, 1),
                        !.reqs = AtomicAdd(@, 1)]
    /\ call' = [call EXCEPT ![c] = [IdleCall EXCEPT !.pc = "push", !.now = t,
                                                    !.e = hist.picks + 1]]
    /\ hist' = [hist EXCEPT !.picks = @ + 1]
    /\ UNCHANGED <<selVars, resVars, auxVars>>

\* Lines 130-132: e := n.inflights.PushBack(now), under the lock.
PickPush(c) ==
    /\ call[c].pc = "push"
    /\ en' = [en EXCEPT !.inflights = Append(@, [e |-> call[c].e, value |-> call[c].now])]
    /\ call' = [call EXCEPT ![c].pc = "picked", ![c].start = call[c].now]
    /\ UNCHANGED <<selVars, resVars, clock, hist, auxVars>>

\* -------------------------------------------------- EWMA node: DoneFunc
\* Lines 148-150 and 156-158: a negative difference of times counts as 0.
NoClamp(d) == d
Clamp(d) == IF d < 0 THEN 0 ELSE d

\* math.Exp(float64(-td) / float64(tau)), as the integer 1000 * w.
RECURSIVE ExpW(_)
ExpW(td) ==
    IF td = 0 THEN WDen
    ELSE IF td < 0 THEN (WDen * WDen) \div ExpW(-td)
    ELSE (ExpW(td - 1) * ExpOne) \div WDen

\* Lines 166 and 185: int64(float64(old)*w + float64(sample)*(1.0-w)).
EwmaSwapped(old, sample, wt) == (old * (WDen - wt) + sample * wt) \div WDen
Ewma(old, sample, wt) == (old * wt + sample * (WDen - wt)) \div WDen

\* Lines 169-179: 0 for an error the handler reports or line 175 recognises.
\* The error e and the errors it wraps, outermost first (errors.Unwrap).
ErrChain(e) ==
    CASE e = "WrapCanceled" -> <<"WrapCanceled", "Canceled">>
      [] e = "WrapDeadline" -> <<"WrapDeadline", "DeadlineExceeded">>
      [] OTHER -> <<e>>

\* errors.Is(e, target): e, or an error e wraps, is target.
ErrorsIs(e, target) == \E i \in 1..Len(ErrChain(e)) : ErrChain(e)[i] = target

\* errors.As(e, &netErr): e, or an error e wraps, is a net.Error (has
\* Timeout() and Temporary()), as context.DeadlineExceeded is.
ErrorsAsNet(e) ==
    \E i \in 1..Len(ErrChain(e)) : ErrChain(e)[i] \in {"NetError", "DeadlineExceeded"}

\* errors.IsServiceUnavailable, errors.IsGatewayTimeout: the error's code is
\* 503, 504.
IsServiceUnavailable(e) == e = "Unavailable"
IsGatewayTimeout(e) == e = "GatewayTimeout"

\* Lines 169-179: the sample of a DoneFunc given err by a node with handler h.
SuccessSample(err, h) ==
    IF err = "nil" THEN 1000
    ELSE IF (\E errs \in h : err \in errs)
            \/ ErrorsIs("DeadlineExceeded", err) \/ ErrorsIs("Canceled", err)
            \/ IsServiceUnavailable(err) \/ IsGatewayTimeout(err)
            \/ ErrorsAsNet(err)
         THEN 0
    ELSE 1000

\* list.Remove(e)
KeepElem(l, e) == l
RemoveElem(l, e) == SelectSeq(l, LAMBDA x : x.e # e)

\* Lines 134-137: the DoneFunc is called with di.Err = err; e is removed. The
\* call keeps the sample lines 169-179 will make of err.
DoneRemove(c, err) ==
    /\ call[c].pc = "picked"
    /\ en' = [en EXCEPT !.inflights = RemoveElem(@, call[c].e)]
    /\ call' = [call EXCEPT ![c].pc = "subInflight",
                            ![c].sample = SuccessSample(err, en.errHandler)]
    /\ UNCHANGED <<selVars, resVars, clock, hist, auxVars>>

\* Line 139
DoneSub(c) ==
    /\ call[c].pc = "subInflight"
    /\ en' = [en EXCEPT !.inflight = AtomicAdd(@, -1)]
    /\ call' = [call EXCEPT ![c].pc = "readNow"]
    /\ UNCHANGED <<selVars, resVars, clock, hist, auxVars>>

\* Line 142: now := time.Now().UnixNano() gives t.
DoneNow(c, t) ==
    /\ call[c].pc = "readNow"
    /\ clock' = t
    /\ call' = [call EXCEPT ![c].pc = "swap", ![c].now = t]
    /\ UNCHANGED <<selVars, resVars, en, hist, auxVars>>

\* Lines 145-151: stamp is swapped for now; w from the time since it.
DoneSwap(c) ==
    /\ call[c].pc = "swap"
    /\ en' = [en EXCEPT !.stamp = call[c].now]
    /\ call' = [call EXCEPT ![c].pc = "loadLag",
                            ![c].w = ExpW(Clamp(call[c].now - en.stamp))]
    /\ UNCHANGED <<selVars, resVars, clock, hist, auxVars>>

\* Lines 160-162: the weight is 0 while no lag has been collected.
LagWeightKept(oldLag, wt) == wt
LagWeight(oldLag, wt) == IF oldLag = 0 THEN 0 ELSE wt

\* Lines 154-166: the sample, the lag loaded, the new lag computed.
DoneLoadLag(c) ==
    /\ call[c].pc = "loadLag"
    /\ LET lag == Clamp(call[c].now - call[c].start)
           oldLag == en.lag
           wt == LagWeight(oldLag, call[c].w)
       IN call' = [call EXCEPT ![c].pc = "storeLag", ![c].raw = lag,
                               ![c].oldLag = oldLag, ![c].w = wt,
                               ![c].newLag = Ewma(oldLag, lag, wt)]
    /\ UNCHANGED <<selVars, resVars, clock, en, hist, auxVars>>

\* Line 167
DoneStoreLag(c) ==
    /\ call[c].pc = "storeLag"
    /\ en' = [en EXCEPT !.lag = call[c].newLag]
    /\ call' = [call EXCEPT ![c].pc = "loadSuc"]
    /\ UNCHANGED <<selVars, resVars, clock, hist, auxVars>>

\* Lines 169-185: the success sample, the success loaded, the new one computed.
DoneLoadSuc(c) ==
    /\ call[c].pc = "loadSuc"
    /\ call' = [call EXCEPT ![c].pc = "storeSuc", ![c].oldSuc = en.success,
                            ![c].newSuc = Ewma(en.success, call[c].sample, call[c].w)]
    /\ UNCHANGED <<selVars, resVars, clock, en, hist, auxVars>>

\* Line 186: the DoneFunc returns.
DoneStoreSuc(c) ==
    /\ call[c].pc = "storeSuc"
    /\ en' = [en EXCEPT !.success = call[c].newSuc]
    /\ call' = [call EXCEPT ![c] = IdleCall]
    /\ hist' = [hist EXCEPT !.dones = @ + 1,
                            !.comps = @ \cup {[e |-> call[c].e, now |-> call[c].now,
                                               start |-> call[c].start,
                                               sample |-> call[c].sample]}]
    /\ UNCHANGED <<selVars, resVars, clock, auxVars>>

\* ---------------------------------------------------- EWMA node: Weight
\* Lines 79-85, times 40: avgLag / 5 kept between 5ms and 200ms.
MinInterval == 1
MaxInterval == 40
PredictInterval(avgLag) ==
    IF 8 * avgLag < MinInterval THEN MinInterval
    ELSE IF 8 * avgLag > MaxInterval THEN MaxInterval
    ELSE 8 * avgLag

\* penalty and time.Second
Penalty == 50
Second == 5

RECURSIVE SumSeq(_)
SumSeq(q) == IF q = <<>> THEN 0 ELSE Head(q) + SumSeq(Tail(q))

\* Line 102: whether Weight predicts from the requests in flight.
PredictAlways(count, len) == TRUE
PredictGuard(count, len) == count > (len \div 2 + 1)

\* Lines 93-104: the lags of the requests in flight above avgLag; predict is
\* their mean when they are the majority. An integer division by 0 panics.
Predict(n, now, avgLag) ==
    LET lags == [i \in 1..Len(n.inflights) |-> now - n.inflights[i].value]
        over == SelectSeq(lags, LAMBDA l : l > avgLag)
        count == Len(over)
    IN IF ~PredictGuard(count, Len(n.inflights)) THEN [predict |-> 0, panic |-> FALSE]
       ELSE IF count = 0 THEN [predict |-> 0, panic |-> TRUE]
       ELSE [predict |-> SumSeq(over) \div count, panic |-> FALSE]

\* Node.load, lines 75-121: what it stores in predictTs and predict, and the
\* load it returns.
Load(n, now) ==
    LET avgLag == n.lag
        due == 40 * (now - n.predictTs) > PredictInterval(avgLag)
        p == Predict(n, now, avgLag)
        predict == IF due THEN p.predict ELSE n.predict
    IN [predictTs |-> IF due THEN now ELSE n.predictTs,
        predict |-> predict,
        panic |-> due /\ p.panic,
        load |-> IF avgLag = 0 THEN Penalty * n.inflight
                 ELSE (IF predict > avgLag THEN predict ELSE avgLag) * n.inflight]

\* Node.Weight, lines 191-194: float64(health * Second) / float64(load), as
\* the pair of the two.
WeightValue(n, now) == <<n.success * Second, Load(n, now).load>>

\* A call of Node.Weight, whose time.Now() gives t.
Weight(t) ==
    /\ clock' = t
    /\ en' = [en EXCEPT !.predictTs = Load(en, t).predictTs,
                        !.predict = Load(en, t).predict]
    /\ UNCHANGED <<selVars, resVars, call, hist, auxVars>>

\* The steps of Pick and of its DoneFunc, by callers of the set cs.
CallerStep(cs) ==
    \/ \E c \in cs, t \in Nows : PickAdd(c, t)
    \/ \E c \in cs : PickPush(c)
    \/ \E c \in cs, err \in DoneErrs : DoneRemove(c, err)
    \/ \E c \in cs : DoneSub(c)
    \/ \E c \in cs, t \in Nows : DoneNow(c, t)
    \/ \E c \in cs : DoneSwap(c)
    \/ \E c \in cs : DoneLoadLag(c)
    \/ \E c \in cs : DoneStoreLag(c)
    \/ \E c \in cs : DoneLoadSuc(c)
    \/ \E c \in cs : DoneStoreSuc(c)

\* Concurrent callers of one node.
NextEwma == CallerStep(Callers)

SpecEwma == InitEwma /\ [][NextEwma]_vars

\* One caller of a node, and Weight called at any time.
NextWeight ==
    \/ CallerStep({"c1"})
    \/ \E t \in Nows : Weight(t)

SpecWeight == InitEwma /\ [][NextWeight]_vars

\* ---------------------------------------------------------------- the core
\* A run exercises the selector, the resolver or an EWMA node with Weight.
InitCore == InitSelector \/ InitResolver \/ InitEwma

NextCore ==
    \/ \E a \in Appliers, ns \in ApplyInputs : mode = "selector" /\ ApplyCall(a, ns)
    \/ \E a \in Appliers : mode = "selector" /\ ApplyStore(a)
    \/ \E p \in Selectors, args \in SelectArgs : mode = "selector" /\ SelectCall(p, args)
    \/ \E p \in Selectors : mode = "selector" /\ SelectLoad(p)
    \/ \E p \in Selectors : mode = "selector" /\ SelectNoCandidate(p)
    \/ \E p \in Selectors : mode = "selector" /\ SelectPickError(p)
    \/ \E p \in Selectors : mode = "selector" /\ SelectPick(p)
    \/ mode = "resolver" /\ NewResolverWatchFails
    \/ mode = "resolver" /\ NewResolverWatch
    \/ mode = "resolver" /\ NewResolverDone
    \/ mode = "resolver" /\ NewResolverCtx
    \/ mode = "resolver" /\ Close
    \/ mode = "resolver" /\ NextEnter("helper")
    \/ mode = "resolver" /\ NextFirst("helper")
    \/ mode = "resolver" /\ NextWaitCtx("helper")
    \/ mode = "resolver" /\ NextWaitEvent("helper")
    \/ mode = "resolver" /\ HelperError
    \/ mode = "resolver" /\ HelperUpdate
    \/ mode = "resolver" /\ NextEnter("bg")
    \/ mode = "resolver" /\ NextFirst("bg")
    \/ mode = "resolver" /\ NextWaitCtx("bg")
    \/ mode = "resolver" /\ NextWaitEvent("bg")
    \/ mode = "resolver" /\ BgError
    \/ mode = "resolver" /\ BgWake
    \/ mode = "resolver" /\ BgUpdate
    \/ \E e \in {"Canceled", "DeadlineExceeded"} : mode = "resolver" /\ CtxDone(e)
    \/ \E r \in RegContents : mode = "resolver" /\ RegChange(r)
    \/ mode = "resolver" /\ WatchError
    \/ \E c \in {"c1"}, t \in Nows : mode = "node" /\ PickAdd(c, t)
    \/ \E c \in {"c1"} : mode = "node" /\ PickPush(c)
    \/ \E c \in {"c1"}, err \in DoneErrs : mode = "node" /\ DoneRemove(c, err)
    \/ \E c \in {"c1"} : mode = "node" /\ DoneSub(c)
    \/ \E c \in {"c1"}, t \in Nows : mode = "node" /\ DoneNow(c, t)
    \/ \E c \in {"c1"} : mode = "node" /\ DoneSwap(c)
    \/ \E c \in {"c1"} : mode = "node" /\ DoneLoadLag(c)
    \/ \E c \in {"c1"} : mode = "node" /\ DoneStoreLag(c)
    \/ \E c \in {"c1"} : mode = "node" /\ DoneLoadSuc(c)
    \/ \E c \in {"c1"} : mode = "node" /\ DoneStoreSuc(c)
    \/ \E t \in Nows : mode = "node" /\ Weight(t)

SpecCore == InitCore /\ [][NextCore]_vars

\* ---------------------------------------- EWMA node: the success sample
\* DoneInfo.Err values: nil, the context errors, errors that wrap them with
\* %w, errors of code 503 and 504, a net.Error, any other error.
SampleErrs ==
    {"nil", "Canceled", "DeadlineExceeded", "WrapCanceled", "WrapDeadline",
     "Unavailable", "GatewayTimeout", "NetError", "Other"}

\* Builder.ErrHandler: none, or one that reports the errors of a set.
SampleHandlers == {Nil} \cup {Some(es) : es \in SUBSET {"Other", "WrapCanceled", "Unavailable"}}

InitSample ==
    /\ mode = "sample"
    /\ cfg = [block |-> FALSE, insecure |-> TRUE, subsetSize |-> 0]
    /\ reg = <<>>
    /\ ResolverIdle
    /\ SelectorIdle
    /\ clock = Epoch
    /\ en = BuildEwma(Nil)
    /\ call = [c \in Callers |-> IdleCall]
    /\ hist = NoHist
    /\ dn = BuildDirect(Nil)
    /\ eq = NoEqual
    /\ ld = [l \in Loaders |-> IdleLoad]
    /\ app = NoApp
    /\ tele = [k \in Keys |-> 0]
    /\ \E err \in SampleErrs, h \in SampleHandlers :
          sm = [err |-> err, errHandler |-> h, sample |-> Nil]

\* Lines 169-179 run for sm.err on a node whose handler is sm.errHandler.
SampleCall ==
    /\ sm.sample = Nil
    /\ sm' = [sm EXCEPT !.sample = Some(SuccessSample(sm.err, sm.errHandler))]
    /\ UNCHANGED <<selVars, resVars, nodeVars, dn, eq, mode, ld, app, tele>>

NextSample == SampleCall

SpecSample == InitSample /\ [][NextSample]_vars

\* ------------------------------------------- EWMA node: concurrent load()
InitLoad ==
    /\ mode = "load"
    /\ cfg = [block |-> FALSE, insecure |-> TRUE, subsetSize |-> 0]
    /\ reg = <<>>
    /\ ResolverIdle
    /\ SelectorIdle
    /\ clock = Epoch
    /\ \E i \in EwmaInits :
          /\ en = WithPending(BuildEwma(i.errHandler), i.pending)
          /\ hist = [NoHist EXCEPT !.picks = i.pending, !.pending = i.pending]
    /\ call = [c \in Callers |-> IdleCall]
    /\ AuxIdle

\* Lines 76-78: now := time.Now().UnixNano() gives t; lag and predictTs are
\* loaded.
LoadEnter(l, t) ==
    /\ ld[l].pc = "idle"
    /\ clock' = t
    /\ ld' = [ld EXCEPT ![l] = [pc |-> "cas", now |-> t, avgLag |-> en.lag,
                                last |-> en.predictTs, predict |-> 0]]
    /\ UNCHANGED <<selVars, resVars, en, call, hist, dn, eq, mode, sm, app, tele>>

\* Line 86: the prediction is due and the compare-and-swap of predictTs from
\* the value loaded to now succeeds, or load() goes on to return its result.
LoadCas(l) ==
    /\ ld[l].pc = "cas"
    /\ IF /\ 40 * (ld[l].now - ld[l].last) > PredictInterval(ld[l].avgLag)
          /\ en.predictTs = ld[l].last
       THEN /\ en' = [en EXCEPT !.predictTs = ld[l].now]
            /\ ld' = [ld EXCEPT ![l].pc = "scan"]
       ELSE /\ ld' = [ld EXCEPT ![l] = IdleLoad]
            /\ UNCHANGED en
    /\ UNCHANGED <<selVars, resVars, clock, call, hist, dn, eq, mode, sm, app, tele>>

\* Lines 92-105: under the read lock, the list is scanned and predict computed.
LoadScan(l) ==
    /\ ld[l].pc = "scan"
    /\ ld' = [ld EXCEPT ![l].pc = "store",
                        ![l].predict = Predict(en, ld[l].now, ld[l].avgLag).predict]
    /\ UNCHANGED <<selVars, resVars, nodeVars, dn, eq, mode, sm, app, tele>>

\* Line 106: predict is stored; load() goes on to return its result.
LoadStore(l) ==
    /\ ld[l].pc = "store"
    /\ en' = [en EXCEPT !.predict = ld[l].predict]
    /\ ld' = [ld EXCEPT ![l] = IdleLoad]
    /\ UNCHANGED <<selVars, resVars, clock, call, hist, dn, eq, mode, sm, app, tele>>

NextLoad ==
    \/ \E l \in Loaders, t \in Nows : LoadEnter(l, t)
    \/ \E l \in Loaders : LoadCas(l)
    \/ \E l \in Loaders : LoadScan(l)
    \/ \E l \in Loaders : LoadStore(l)

SpecLoad == InitLoad /\ [][NextLoad]_vars

\* ------------------------------------------------------------------ App.Run
MaxHooks == 2      \* beforeStart hooks
MaxServers == 2    \* configured servers

\* What a beforeStart hook returns.
HookResults == {"nil", "errA", "errB"}
HookLists == UNION {[1..n -> HookResults] : n \in 0..MaxHooks}

Servers == 1..MaxServers

\* The options Run starts from: the hooks (by what they return), the servers,
\* whether a registrar is set, and whether buildInstance fails. srv: how far
\* the Start task of each server is; wg: the WaitGroup's counter.
InitApp ==
    /\ mode = "app"
    /\ cfg = [block |-> FALSE, insecure |-> TRUE, subsetSize |-> 0]
    /\ reg = <<>>
    /\ ResolverIdle
    /\ SelectorIdle
    /\ clock = Epoch
    /\ en = BuildEwma(Nil)
    /\ call = [c \in Callers |-> IdleCall]
    /\ hist = NoHist
    /\ dn = BuildDirect(Nil)
    /\ eq = NoEqual
    /\ sm = NoSample
    /\ ld = [l \in Loaders |-> IdleLoad]
    /\ tele = [k \in Keys |-> 0]
    /\ \E hs \in HookLists, n \in 0..MaxServers, r \in BOOLEAN, b \in BOOLEAN :
          app = [pc |-> "build", beforeStart |-> hs, servers |-> n, registrar |-> r,
                 buildFails |-> b, hook |-> 1, spawned |-> 0, wg |-> 0,
                 srv |-> [s \in Servers |-> "none"], registered |-> FALSE,
                 ret |-> Nil]

appOthers == <<selVars, resVars, nodeVars, dn, eq, mode, sm, ld, tele>>

\* Lines 87-90: buildInstance; its error is returned.
RunBuild ==
    /\ app.pc = "build"
    /\ app' = IF app.buildFails
              THEN [app EXCEPT !.pc = "returned", !.ret = Some("buildErr")]
              ELSE [app EXCEPT !.pc = IF Len(app.beforeStart) = 0 THEN "servers" ELSE "hooks"]
    /\ UNCHANGED appOthers

\* Lines 100-104: the next beforeStart hook runs; its error is returned.
RunHook ==
    /\ app.pc = "hooks"
    /\ LET err == app.beforeStart[app.hook]
       IN app' = IF err # "nil"
                 THEN [app EXCEPT !.pc = "returned", !.ret = Some(err)]
                 ELSE [app EXCEPT !.hook = @ + 1,
                                  !.pc = IF app.hook = Len(app.beforeStart)
                                         THEN "servers" ELSE "hooks"]
    /\ UNCHANGED appOthers

\* Lines 106-123: for the next server the stop waiter is started, the
\* WaitGroup is incremented and the Start task is started.
RunSpawn ==
    /\ app.pc = "servers"
    /\ app.spawned < app.servers
    /\ app' = [app EXCEPT !.spawned = @ + 1, !.wg = @ + 1,
                          !.srv[app.spawned + 1] = "spawned"]
    /\ UNCHANGED appOthers

\* Line 120: the Start task begins with wg.Done().
StartBegin(s) ==
    /\ app.srv[s] = "spawned"
    /\ app' = [app EXCEPT !.srv[s] = "begun", !.wg = @ - 1]
    /\ UNCHANGED appOthers

\* Line 121: the Start task calls srv.Start.
StartServe(s) ==
    /\ app.srv[s] = "begun"
    /\ app' = [app EXCEPT !.srv[s] = "started"]
    /\ UNCHANGED appOthers

\* Line 125: wg.Wait() returns when the counter is zero.
WgAlways(n) == TRUE
WgReady(n) == n = 0

\* Lines 125-127: all servers are spawned and wg.Wait() has returned. In
\* "started" Run goes on with the afterStart hooks and eg.Wait (lines 135-161),
\* which start no server and do not register.
RunWait ==
    /\ app.pc = "servers"
    /\ app.spawned = app.servers
    /\ WgReady(app.wg)
    /\ app' = [app EXCEPT !.pc = IF app.registrar THEN "register" ELSE "started"]
    /\ UNCHANGED appOthers

\* Lines 127-134: registrar.Register is called; its error is returned.
RunRegister ==
    /\ app.pc = "register"
    /\ \E err \in {"nil", "registerErr"} :
          app' = IF err # "nil"
                 THEN [app EXCEPT !.registered = TRUE, !.pc = "returned", !.ret = Some(err)]
                 ELSE [app EXCEPT !.registered = TRUE, !.pc = "started"]
    /\ UNCHANGED appOthers

NextApp ==
    \/ RunBuild
    \/ RunHook
    \/ RunSpawn
    \/ \E s \in Servers : StartBegin(s)
    \/ \E s \in Servers : StartServe(s)
    \/ RunWait
    \/ RunRegister

SpecApp == InitApp /\ [][NextApp]_vars

\* -------------------------------------------------------------- direct node
\* An int64, and a float64 with an integer value, is the record [hi, lo] that
\* stands for hi * Limb + lo with 0 <= lo < Limb; the values used lie between
\* -Limb and 2^60.
Limb == 1073741824
I64(x) == [hi |-> 0, lo |-> x]

RECURSIVE Pow2(_)
Pow2(k) == IF k = 0 THEN 1 ELSE 2 * Pow2(k - 1)

\* The number of low bits float64's 53-bit mantissa cannot hold of a value
\* whose high limb is h >= 0.
RECURSIVE LostBits(_, _)
LostBits(h, k) == IF h < Pow2(23 + k) THEN k ELSE LostBits(h, k + 1)

\* float64(v) of an int64 v: exact up to 2^53 in size, above that rounded to
\* the nearest multiple of 2^LostBits, ties to the even one.
Float64(v) ==
    IF v.hi < 0 THEN v
    ELSE LET s == Pow2(LostBits(v.hi, 0))
             r == v.lo % s
             down == v.lo - r
             up == IF 2 * r > s \/ (2 * r = s /\ (down \div s) % 2 = 1)
                   THEN down + s ELSE down
         IN  IF up = Limb THEN [hi |-> v.hi + 1, lo |-> 0]
             ELSE [hi |-> v.hi, lo |-> up]

defaultWeight == 100

\* What Node.InitialWeight() returns for the node a run is about: nil, or a
\* pointer to one of these.
InitialWeights ==
    {Nil} \cup {Some(I64(x)) : x \in {0, 1, 7, 100}}
          \cup {Some([hi |-> -1, lo |-> Limb - 10])}
          \cup {Some([hi |-> Pow2(23), lo |-> x]) : x \in {0, 1, 3}}

InitDirect ==
    /\ mode = "direct"
    /\ cfg = [block |-> FALSE, insecure |-> TRUE, subsetSize |-> 0]
    /\ reg = <<>>
    /\ ResolverIdle
    /\ SelectorIdle
    /\ clock = Epoch
    /\ en = BuildEwma(Nil)
    /\ call = [c \in Callers |-> IdleCall]
    /\ hist = NoHist
    /\ eq = NoEqual
    /\ MoreIdle
    /\ \E iw \in InitialWeights : dn = BuildDirect(iw)

\* Node.Pick, lines 37-39: lastPick is stored, an empty DoneFunc returned.
DirectPick(t) ==
    /\ dn.picks < MaxPicks
    /\ clock' = t
    /\ dn' = [dn EXCEPT !.lastPick = t, !.picks = @ + 1]
    /\ UNCHANGED <<selVars, resVars, en, call, hist, eq, moreVars>>

\* The DoneFunc of line 39: func(ctx, di) {}.
DirectDone ==
    /\ dn.dones < dn.picks
    /\ dn' = [dn EXCEPT !.dones = @ + 1]
    /\ UNCHANGED <<selVars, resVars, nodeVars, eq, moreVars>>

\* Node.Weight, lines 45-50.
WeightOfLastPick(n) == I64(n.lastPick)
DirectWeightValue(n) ==
    IF n.initialWeight # Nil THEN Float64(The(n.initialWeight))
    ELSE I64(defaultWeight)

DirectWeight ==
    /\ dn' = [dn EXCEPT !.weight = Some(DirectWeightValue(dn))]
    /\ UNCHANGED <<selVars, resVars, nodeVars, eq, moreVars>>

NextDirect ==
    \/ \E t \in Nows : DirectPick(t)
    \/ DirectDone
    \/ DirectWeight

SpecDirect == InitDirect /\ [][NextDirect]_vars

\* -------------------------------------------------- ServiceInstance.Equal
MaxEndpoints == 2

\* Endpoint strings and their order under sort.Strings.
EndpointStrings == {"a", "b"}
Rank(str) == IF str = "a" THEN 1 ELSE 2

\* Metadata: a map from some of the keys to a value, "" included.
MetaKeys == {"k1", "k2"}
MetaValues == {"", "x"}
Metadatas == UNION {[ks -> MetaValues] : ks \in SUBSET MetaKeys}

EndpointLists == UNION {[1..n -> EndpointStrings] : n \in 0..MaxEndpoints}

\* The receiver, and the arguments it is compared with.
Receivers ==
    {[id |-> "1", name |-> "svc", version |-> "v1", metadata |-> m, endpoints |-> es] :
        m \in Metadatas, es \in EndpointLists}
Arguments ==
    {[id |-> f[1], name |-> f[2], version |-> f[3], metadata |-> m, endpoints |-> es] :
        f \in {<<"1", "svc", "v1">>, <<"2", "svc", "v1">>,
               <<"1", "other", "v1">>, <<"1", "svc", "v2">>},
        m \in Metadatas, es \in EndpointLists}

\* sort.Strings
RECURSIVE Insert(_, _)
Insert(str, sorted) ==
    IF sorted = <<>> THEN <<str>>
    ELSE IF Rank(str) <= Rank(Head(sorted)) THEN <<str>> \o sorted
    ELSE <<Head(sorted)>> \o Insert(str, Tail(sorted))

RECURSIVE SortStrings(_)
SortStrings(l) == IF l = <<>> THEN <<>> ELSE Insert(Head(l), SortStrings(Tail(l)))

\* m[k] of a Go map: the zero value "" for a key that is not in the map.
MapGet(m, k) == IF k \in DOMAIN m THEN m[k] ELSE ""

\* Equal, lines 89-111, for a receiver i and an argument t that are not nil.
Equal(i, t) ==
    IF Len(i.endpoints) # Len(t.endpoints) THEN FALSE
    ELSE IF SortStrings(i.endpoints) # SortStrings(t.endpoints) THEN FALSE
    ELSE IF Cardinality(DOMAIN i.metadata) # Cardinality(DOMAIN t.metadata) THEN FALSE
    ELSE IF \E k \in DOMAIN i.metadata : i.metadata[k] # MapGet(t.metadata, k) THEN FALSE
    ELSE i.id = t.id /\ i.name = t.name /\ i.version = t.version

InitEqual ==
    /\ mode = "equal"
    /\ cfg = [block |-> FALSE, insecure |-> TRUE, subsetSize |-> 0]
    /\ reg = <<>>
    /\ ResolverIdle
    /\ SelectorIdle
    /\ clock = Epoch
    /\ en = BuildEwma(Nil)
    /\ call = [c \in Callers |-> IdleCall]
    /\ hist = NoHist
    /\ dn = BuildDirect(Nil)
    /\ MoreIdle
    /\ \E i \in Receivers, o \in Arguments : eq = [i |-> i, o |-> o, ret |-> Nil]

\* i.Equal(o): both Endpoints slices are sorted in place (lines 93-94) once
\* their lengths were found equal.
EqualCall ==
    /\ eq.ret = Nil
    /\ LET sorts == Len(eq.i.endpoints) = Len(eq.o.endpoints)
       IN eq' = [i |-> [eq.i EXCEPT !.endpoints = IF sorts THEN SortStrings(@) ELSE @],
                 o |-> [eq.o EXCEPT !.endpoints = IF sorts THEN SortStrings(@) ELSE @],
                 ret |-> Some(Equal(eq.i, eq.o))]
    /\ UNCHANGED <<selVars, resVars, nodeVars, dn, moreVars>>

NextEqual == EqualCall

SpecEqual == InitEqual /\ [][NextEqual]_vars

\* ------------------------------------------------------------------ claims
\* The snapshot Apply call g builds from the node list it was given.
Snapshot(g) == [i \in 1..Len(built[g]) |-> [raw |-> built[g][i], gen |-> g, idx |-> i]]

\* f_N(...f_2(f_1(s))) for fs = <<f_1, ..., f_N>>.
RECURSIVE Compose(_, _)
Compose(fs, s) ==
    IF Len(fs) = 0 THEN s
    ELSE Filter(fs[Len(fs)], Compose(SubSeq(fs, 1, Len(fs) - 1), s))

Working(p) == sel[p].pc \in {"pick", "done"} /\ sel[p].loaded # Nil

\* C1: the candidates of a Select are drawn from exactly one applied
\* snapshot: the slice it loaded is, in full, the snapshot some Apply call
\* built, and every candidate is an element of that snapshot, so no two
\* candidates were built by different Apply calls.
C1_OneSnapshot ==
    \A p \in Selectors :
        Working(p) =>
            /\ \E g \in 1..Len(built) : The(sel[p].loaded) = Snapshot(g)
            /\ Range(The(sel[p].candidates)) \subseteq Range(The(sel[p].loaded))
            /\ \A c, d \in Range(The(sel[p].candidates)) : c.gen = d.gen

\* A Select holds candidates of the superseded snapshot while a newer one is
\* stored.
C1_Witness ==
    \E p \in Selectors :
        /\ sel[p].pc = "pick"
        /\ Len(The(sel[p].candidates)) > 0
        /\ Len(stored) >= 2
        /\ nodes # sel[p].loaded

\* C2: a Select that starts after k Apply calls have returned works on the
\* snapshot of the k-th store or of a later one (and finds a node set at all
\* when k > 0), so the node it returns was given to that Apply or a later one.
C2_Linearizable ==
    \A p \in Selectors :
        /\ (sel[p].pc \in {"pick", "done"} /\ sel[p].startSeq > 0) => sel[p].loaded # Nil
        /\ Working(p) =>
              \E k \in 1..Len(stored) :
                  /\ k >= sel[p].startSeq
                  /\ The(sel[p].loaded) = Snapshot(stored[k])
                  /\ sel[p].node \subseteq Range(built[stored[k]])

\* The set shrank from three nodes to {a}; a Select that started afterwards
\* returned a.
C2_Witness ==
    \E p \in Selectors :
        /\ sel[p].pc = "done"
        /\ sel[p].startSeq = 2
        /\ Len(built[stored[1]]) = 3
        /\ built[stored[2]] = <<NodeA>>
        /\ sel[p].node = Some(NodeA)

\* C7: a Select that finds no node set applied, or loads an empty one,
\* returns ErrNoAvailable with nil node and nil DoneFunc and has not called
\* Balancer.Pick.
C7_NoNodes ==
    \A p \in Selectors :
        (sel[p].pc = "done" /\ (sel[p].loaded = Nil \/ sel[p].loaded = Some(<<>>))) =>
            /\ sel[p].err = "ErrNoAvailable"
            /\ sel[p].node = Nil
            /\ sel[p].done = Nil
            /\ sel[p].balCalls = 0

\* A Select returned after loading an applied, empty node set.
C7_Witness ==
    \E p \in Selectors :
        /\ sel[p].pc = "done"
        /\ sel[p].loaded = Some(<<>>)
        /\ sel[p].err = "ErrNoAvailable"

\* C8: when the filters reduce a non-empty loaded set to nothing, Select
\* returns ErrNoAvailable with nil node and nil DoneFunc, does not call
\* Balancer.Pick and runs no node's Pick().
C8_FilteredToNone ==
    \A p \in Selectors :
        (/\ sel[p].pc = "done"
         /\ sel[p].loaded # Nil
         /\ sel[p].loaded # Some(<<>>)
         /\ Compose(sel[p].filters, The(sel[p].loaded)) = <<>>) =>
            /\ sel[p].err = "ErrNoAvailable"
            /\ sel[p].node = Nil
            /\ sel[p].done = Nil
            /\ sel[p].balCalls = 0
            /\ sel[p].nodePicks = 0

\* Two filters together dropped every node of a three-node set.
C8_Witness ==
    \E p \in Selectors :
        /\ sel[p].pc = "done"
        /\ sel[p].loaded # Nil
        /\ Len(The(sel[p].loaded)) = 3
        /\ sel[p].filters = <<"first", "version_v1">>
        /\ sel[p].err = "ErrNoAvailable"

\* C9: the candidates (and what Balancer.Pick is handed) are
\* f_N(...f_2(f_1(snapshot))) for the filters in the order given, filter i
\* receiving the output of filter i-1 and the first one the snapshot; with
\* no filter the candidates are the snapshot.
C9_FiltersCompose ==
    \A p \in Selectors :
        Working(p) =>
            LET s == sel[p] IN
            /\ s.candidates = Some(Compose(s.filters, The(s.loaded)))
            /\ Len(s.filters) = 0 => s.candidates = s.loaded
            /\ Len(s.filters) > 0 => Len(s.filterIn) = Len(s.filters)
            /\ \A i \in 1..Len(s.filterIn) :
                  s.filterIn[i] = IF i = 1 THEN The(s.loaded)
                                  ELSE Filter(s.filters[i - 1], s.filterIn[i - 1])
            /\ \A r \in s.balRet : r.arg = Compose(s.filters, The(s.loaded))

\* Two filters that do not commute ran over a three-node set and the
\* balancer was handed their composition.
C9_Witness ==
    \E p \in Selectors :
        /\ sel[p].pc = "done"
        /\ sel[p].filters = <<"version_v1", "first">>
        /\ sel[p].loaded # Nil
        /\ Len(The(sel[p].loaded)) = 3
        /\ sel[p].balCalls = 1
        /\ sel[p].node = Some(NodeA)

\* C10: a Select that returns err == nil returns the raw node wrapped by the
\* weighted node the balancer chose, which is one of the candidates, and the
\* balancer's non-nil DoneFunc; when the balancer fails, Select returns that
\* error with nil node and nil DoneFunc and leaves the peer of ctx unwritten.
C10_PickResult ==
    \A p \in Selectors :
        sel[p].pc = "done" =>
            LET s == sel[p] IN
            /\ s.err = "nil" =>
                  /\ s.balCalls = 1
                  /\ \E r \in s.balRet :
                        /\ r.err = "nil"
                        /\ \E wn \in r.wn :
                              /\ s.node = Some(wn.raw)
                              /\ wn \in Range(The(s.candidates))
                        /\ r.done # Nil
                        /\ s.done = r.done
            /\ \A r \in s.balRet :
                  r.err # "nil" =>
                      /\ s.err = r.err
                      /\ s.node = Nil
                      /\ s.done = Nil
                      /\ s.peer = Nil

\* A Select whose context carries a peer returned a node and published it.
C10_Witness ==
    \E p \in Selectors :
        /\ sel[p].pc = "done"
        /\ sel[p].err = "nil"
        /\ sel[p].hasPeer
        /\ sel[p].peer = sel[p].node
        /\ sel[p].node # Nil

\* C3: an update whose snapshot yields no node (it is empty, or no instance
\* has a usable endpoint of the scheme) does not call Apply, returns false and
\* leaves the selector's node set as it was; update returns true exactly when
\* it called Apply, and then with a non-empty list.
C3_EmptyRefused ==
    upd.n = 1 =>
        /\ Filtered(upd.services, cfg.insecure) = <<>> =>
              /\ ~upd.ok
              /\ upd.arg = Nil
              /\ upd.kept
        /\ upd.ok <=> upd.arg # Nil
        /\ \A ns \in upd.arg : Len(ns) > 0

\* A non-empty snapshot without a usable endpoint was refused while the
\* selector held a set.
C3_Witness ==
    /\ upd.n = 1
    /\ ~upd.ok
    /\ upd.services # <<>>
    /\ nodes # Nil

\* C4 as claimed: with block, newResolver returns without error only after an
\* update applied a non-empty set; and if the caller's context was done before
\* any update had applied one, newResolver stops the watcher and returns the
\* context's error.
C4_AsClaimed ==
    (cfg.block /\ main.pc = "returned" /\ main.branch # "watch") =>
        /\ main.err = "nil" => (nApply > 0 /\ nodes # Nil /\ nodes # Some(<<>>))
        /\ env.ctxFirst => (main.err = ctx /\ "newResolver" \in w.stopBy)

\* C4, amended: with block, newResolver returns without error only after an
\* update applied a non-empty set (which the selector then holds); when its
\* wait ends on the context being done it stops the watcher, returns the
\* context's error and starts no background task; and whenever it returns an
\* error after the watcher was created, it has stopped the watcher.
C4_Bootstrap ==
    (cfg.block /\ main.pc = "returned" /\ main.branch # "watch") =>
        /\ main.err = "nil" =>
              /\ main.branch = "done"
              /\ nApply > 0
              /\ nodes # Nil
              /\ \A loaded \in nodes : ~NoCandidates(loaded)
        /\ main.branch = "ctx" =>
              /\ ctx # "active"
              /\ main.err = ctx
              /\ "newResolver" \in w.stopBy
              /\ task["bg"].pc = "off"
        /\ main.err # "nil" => "newResolver" \in w.stopBy

\* The bootstrap waited for a change of the registry before an update applied.
C4_Witness ==
    /\ cfg.block
    /\ main.pc = "returned"
    /\ main.err = "nil"
    /\ env.events = 1
    /\ task["helper"].pc = "exited"

BgRetryable == task["bg"].pc = "got" /\ task["bg"].err \notin {"nil", "Canceled"}

\* C5: the background task ends only on a cancellation error; after any other
\* error of Next it calls Next again; an update it makes after such an error
\* applies the snapshot as any update does; and the task never stops the
\* watcher.
C5_RetriesForever ==
    /\ [](task["bg"].pc = "exited" => task["bg"].err = "Canceled")
    /\ BgRetryable ~> (task["bg"].pc \in {"inFirst", "inWait"})
    /\ []((upd.n = 1 /\ upd.by = "bg" /\ upd.afterErr) =>
            /\ upd.ok <=> Filtered(upd.services, cfg.insecure) # <<>>
            /\ upd.arg \subseteq UpdateNodes(upd.services, cfg.insecure, cfg.subsetSize)
            /\ upd.ok => nodes # Nil)
    /\ [](w.stopBy \subseteq {"newResolver", "Close"})

\* After an error of Next the background task applied a later snapshot.
C5_Witness ==
    /\ upd.n = 1
    /\ upd.by = "bg"
    /\ upd.afterErr
    /\ upd.ok
    /\ w.stopBy = {}

InPick(c) == call[c].pc = "push"
InDone(c) == call[c].pc \notin {"idle", "push", "picked"}
Quiet == \A c \in Callers : ~InPick(c) /\ ~InDone(c)

\* C11: whenever no Pick and no DoneFunc is in progress, inflight is 1 plus
\* the Picks made minus the DoneFuncs invoked.
C11_InflightConserved ==
    Quiet => en.inflight = 1 + hist.picks - hist.dones

\* Both callers have finished a DoneFunc while earlier Picks are pending.
C11_Witness ==
    /\ Quiet
    /\ hist.dones = 2
    /\ hist.pending > 0
    /\ en.inflight = 1 + hist.pending

\* C12 as claimed: in every state, also between the steps of a running Pick or
\* DoneFunc, inflight >= 0 and the inflights list has inflight - 1 elements.
C12_AsClaimed ==
    /\ en.inflight >= 0
    /\ Len(en.inflights) = en.inflight - 1

\* C12, amended: inflight >= 0 in every state; the list has inflight - 1
\* elements less one for each Pick that has incremented inflight and not yet
\* pushed its element and one for each DoneFunc that has removed its element
\* and not yet decremented inflight; so it has inflight - 1 elements whenever
\* no call is at such a point.
C12_InflightList ==
    /\ en.inflight >= 0
    /\ Len(en.inflights) = en.inflight - 1
                             - Cardinality({c \in Callers : call[c].pc = "push"})
                             - Cardinality({c \in Callers : call[c].pc = "subInflight"})

\* A Pick and a DoneFunc are both between their two steps.
C12_Witness ==
    /\ call["c1"].pc = "push"
    /\ call["c2"].pc = "subInflight"
    /\ Len(en.inflights) = en.inflight - 3

\* C13: success is within [0, 1000] in every state.
C13_SuccessRange ==
    /\ en.success >= 0
    /\ en.success <= 1000
    /\ \A c \in Callers : call[c].pc = "storeSuc" =>
          (call[c].newSuc >= 0 /\ call[c].newSuc <= 1000)

\* A failed completion has been averaged into success, which lies strictly
\* inside the range, while another DoneFunc is about to store its own value.
C13_Witness ==
    /\ en.success > 0
    /\ en.success < 1000
    /\ \E x \in hist.comps : x.sample = 0
    /\ \E c \in Callers : call[c].pc = "storeSuc"

\* C14 as claimed: a DoneFunc whose sample is above the lag it found stores a
\* lag strictly between the two.
C14_AsClaimed ==
    \A c \in Callers :
        (call[c].pc = "loadSuc" /\ call[c].raw > call[c].oldLag) =>
            /\ call[c].oldLag < call[c].newLag
            /\ call[c].newLag < call[c].raw

\* C14, amended: a DoneFunc whose sample is above the lag it found stores a
\* lag from the old lag to the sample, both included; it is the sample itself
\* when the old lag is 0 or the weight is 0, and the old lag when the weight
\* is 1 (no time since the last completion); and lag changes by nothing but a
\* DoneFunc's store.
C14_LagBetween ==
    /\ [](\A c \in Callers :
            (call[c].pc = "loadSuc" /\ call[c].raw > call[c].oldLag) =>
                /\ call[c].oldLag <= call[c].newLag
                /\ call[c].newLag <= call[c].raw
                /\ (call[c].oldLag = 0 \/ call[c].w = 0) => call[c].newLag = call[c].raw
                /\ call[c].w = WDen => call[c].newLag = call[c].oldLag)
    /\ [][en.lag' # en.lag =>
            \E c \in Callers : call[c].pc = "storeLag" /\ call'[c].pc = "loadSuc"]_vars

\* A DoneFunc found a lag above 0 and had a sample above it.
C14_Witness ==
    \E c \in Callers :
        /\ call[c].pc = "loadSuc"
        /\ call[c].oldLag > 0
        /\ call[c].raw > call[c].oldLag
        /\ call[c].w > 0
        /\ call[c].w < WDen

\* One completion applied to the telemetry st = [lag, success, stamp], as a
\* DoneFunc running alone applies it.
ApplyCompletion(st, x) ==
    LET w0 == ExpW(Clamp(x.now - st.stamp))
        raw == Clamp(x.now - x.start)
        wt == IF st.lag = 0 THEN 0 ELSE w0
    IN [lag |-> Ewma(st.lag, raw, wt), success |-> Ewma(st.success, x.sample, wt),
        stamp |-> x.now]

\* The telemetry the completions xs can give from st, one after another in any
\* order.
RECURSIVE SerialResults(_, _)
SerialResults(st, xs) ==
    IF xs = {} THEN {st}
    ELSE UNION {SerialResults(ApplyCompletion(st, x), xs \ {x}) : x \in xs}

\* C20: when no DoneFunc is running, lag and success are what the finished
\* completions give when applied one after another in some order.
C20_SerialUpdates ==
    (\A c \in Callers : ~InDone(c)) =>
        \E st \in SerialResults([lag |-> 0, success |-> 1000, stamp |-> 0], hist.comps) :
            /\ en.lag = st.lag
            /\ en.success = st.success

\* ---------------------------------------------------- claims: direct node
\* C15: whatever Picks and DoneFuncs came before, Weight() returns the Node's
\* InitialWeight, converted to float64, when it is set and 100 otherwise (the
\* conversion keeps every InitialWeight up to 2^53 in size as it is); a Pick
\* changes lastPick and no other field, a DoneFunc changes no field.
C15_DirectWeight ==
    /\ [](dn.weight # Nil =>
            The(dn.weight) = (IF dn.initialWeight # Nil
                              THEN Float64(The(dn.initialWeight))
                              ELSE I64(100)))
    /\ [](\A x \in dn.initialWeight :
            (x.hi >= 0 /\ x.hi < Pow2(23)) => Float64(x) = x)
    /\ [][/\ dn'.initialWeight = dn.initialWeight
          /\ dn'.lastPick # dn.lastPick => dn'.picks = dn.picks + 1
          /\ dn'.dones # dn.dones => dn'.lastPick = dn.lastPick]_vars

\* Weight() has returned 7, the InitialWeight, after two Picks at different
\* times and one DoneFunc.
C15_Witness ==
    /\ dn.initialWeight = Some(I64(7))
    /\ dn.weight = Some(I64(7))
    /\ dn.picks = 2
    /\ dn.dones >= 1
    /\ dn.lastPick > Epoch

\* ---------------------------------------------------- claims: etcd watcher
\* C16: a call of Next that returns a snapshot (a nil error) is the first
\* call with a non-empty instance list, or a later call that received a watch
\* response.
C16_AsClaimed ==
    \A t \in Tasks :
        (task[t].pc = "got" /\ task[t].err = "nil") =>
            \/ task[t].via = "inFirst" /\ task[t].items # <<>>
            \/ task[t].via = "inWait"

\* C17: a call of Next that waits in its select after Stop was called
\* returns, and a return from that wait under the cancelled context gives the
\* context's error and no instances.
C17_StopEndsNext ==
    /\ \A t \in Tasks :
          (task[t].pc = "inWait" /\ w.stopBy # {}) ~>
              (task[t].pc = "got" /\ task[t].via = "inWait" /\ task[t].items = <<>>
                 /\ task[t].err \in {"Canceled", "DeadlineExceeded"})
    /\ [][\A t \in Tasks :
            (task[t].pc = "inWait" /\ task'[t].pc = "got" /\ w.ctx # "active") =>
                (task'[t].err = w.ctx /\ task'[t].items = <<>>)]_vars

\* The background task's Next has returned context.Canceled from its wait
\* after Close stopped the watcher, the caller's context being still alive.
C17_Witness ==
    /\ ctx = "active"
    /\ "Close" \in w.stopBy
    /\ task["bg"].pc = "got"
    /\ task["bg"].via = "inWait"
    /\ task["bg"].err = "Canceled"

\* ------------------------------------------- claims: ServiceInstance.Equal
\* C18: Equal returns true exactly when the two instances have the same ID,
\* Name and Version, the same set of Endpoints and the same Metadata map.
C18_AsClaimed ==
    eq.ret # Nil =>
        (The(eq.ret) <=>
            /\ eq.i.id = eq.o.id
            /\ eq.i.name = eq.o.name
            /\ eq.i.version = eq.o.version
            /\ Range(eq.i.endpoints) = Range(eq.o.endpoints)
            /\ eq.i.metadata = eq.o.metadata)

\* --------------------------------------------------------- claims: the core
\* n.(WeightedNode), line 49 of Select: whether the assertion holds of n.
IsWeightedNode(n) == DOMAIN n = {"raw", "gen", "idx"}

\* Select is about to panic: a filter's output holds a node that is no
\* WeightedNode (line 49), or the Balancer gave no node and no error, so that
\* wn.Raw() is called on nil (lines 66-68).
SelectPanics(p) ==
    \/ /\ sel[p].pc = "load"
       /\ nodes # Nil
       /\ Len(sel[p].filters) > 0
       /\ LET newNodes == FilterLoop(sel[p].filters, 1, The(nodes), The(nodes))
          IN \E i \in 1..Len(newNodes) : ~IsWeightedNode(newNodes[i])
    \/ /\ sel[p].pc = "pick"
       /\ ~NoCandidates(The(sel[p].candidates))
       /\ \E r \in BalancerPick(The(sel[p].candidates)) : r.err = "nil" /\ r.wn = Nil

\* resolver.update is about to panic: the snapshot it is handed holds
\* something that is no instance (ins.Endpoints, line 139, of a nil pointer).
UpdatePanics(t) ==
    /\ task[t].pc = "got"
    /\ task[t].err = "nil"
    /\ \E i \in 1..Len(task[t].items) : "endpoints" \notin DOMAIN task[t].items[i]

\* Weight is about to panic: load() divides by a count of 0 (line 103).
WeightPanics == \E t \in Nows : Load(en, t).panic

C22_FirstSampleRaw ==
    /\ [](\A c \in Callers :
            (call[c].pc \in {"storeLag", "loadSuc"} /\ call[c].oldLag = 0) =>
                /\ call[c].w = 0
                /\ call[c].raw = Clamp(call[c].now - call[c].start)
                /\ call[c].newLag = call[c].raw)
    /\ [][\A c \in Callers :
            (call[c].pc = "storeLag" /\ call'[c].pc = "loadSuc") =>
                en'.lag = call[c].newLag]_vars

\* After an earlier completion, at most MaxTime before, left the lag at 0, a
\* DoneFunc has stored its positive raw sample as the lag.
C22_Witness ==
    \E c \in Callers :
        /\ call[c].pc = "loadSuc"
        /\ hist.dones >= 1
        /\ call[c].oldLag = 0
        /\ call[c].raw > 0
        /\ en.lag = call[c].raw

\* C23: the sample is 0 when the error handler flags the error, when the error
\* is or wraps context.DeadlineExceeded or context.Canceled, when it is a
\* service-unavailable or gateway-timeout error, and when it is a network
\* error; it is 1000 when the error is nil or none of these.
C23_AsClaimed ==
    sm.sample # Nil =>
        The(sm.sample) =
            (IF /\ sm.err # "nil"
                /\ \/ \E errs \in sm.errHandler : sm.err \in errs
                   \/ ErrorsIs(sm.err, "DeadlineExceeded")
                   \/ ErrorsIs(sm.err, "Canceled")
                   \/ sm.err \in {"Unavailable", "GatewayTimeout", "NetError"}
             THEN 0 ELSE 1000)

\* C29: in every state inflight >= 1 and lag >= 0, and the load a call of
\* Weight would compute at any time it may read is strictly positive, so its
\* division is by a positive number.
C29_LoadPositive ==
    /\ en.inflight >= 1
    /\ en.lag >= 0
    /\ en.predict >= 0
    /\ \A t \in Nows : Load(en, t).load > 0

\* Weight has run on a node whose DoneFuncs have all been invoked and left a
\* positive lag.
C29_Witness ==
    /\ hist.dones >= 1
    /\ hist.dones = hist.picks - hist.pending
    /\ \A c \in Callers : call[c].pc = "idle"
    /\ en.lag > 0
    /\ en.predictTs > Epoch
    /\ en.inflight = 1 + hist.pending

\* C21: at most one caller of load() is at the scan of the inflights list.
C21_AsClaimed == Cardinality({l \in Loaders : ld[l].pc = "scan"}) <= 1

\* ------------------------------------------------ claims: resolver.update
\* The instance has an endpoint of the resolver's scheme.
HasMatching(ins, insecure) ==
    \E i \in 1..Len(ins.endpoints) : ins.endpoints[i].scheme = Scheme(insecure)

\* ParseEndpoint gives a host for the instance: no endpoint that does not
\* parse comes before its first endpoint of the scheme, whose host is not empty.
Usable(ins, insecure) ==
    LET ept == ParseEndpoint(ins.endpoints, Scheme(insecure))
    IN ~ept.err /\ ept.host # ""

NodeOf(ins, insecure) == NewNode(ParseEndpoint(ins.endpoints, Scheme(insecure)).host, ins)

\* C24 as claimed: with subsetSize = 0 the nodes given to Apply are those of
\* the instances that have an endpoint of the scheme, each once, in order.
C24_AsClaimed ==
    (upd.n = 1 /\ cfg.subsetSize = 0) =>
        LET matching == SelectSeq(upd.services, LAMBDA ins : HasMatching(ins, cfg.insecure))
            expected == [i \in 1..Len(matching) |-> NodeOf(matching[i], cfg.insecure)]
        IN IF upd.arg = Nil THEN expected = <<>> ELSE The(upd.arg) = expected

\* C24, amended: every node given to Apply is built from an instance of the
\* snapshot that has an endpoint of the scheme and for which ParseEndpoint
\* gives a non-empty host; with subsetSize = 0 the nodes are those of all such
\* instances, each once, in snapshot order, and Apply is not called when
\* there is none.
C24_UpdateNodes ==
    upd.n = 1 =>
        LET usable == SelectSeq(upd.services, LAMBDA ins : Usable(ins, cfg.insecure))
            expected == [i \in 1..Len(usable) |-> NodeOf(usable[i], cfg.insecure)]
        IN /\ \A ins \in Range(usable) : HasMatching(ins, cfg.insecure)
           /\ upd.arg # Nil =>
                 /\ \A i \in 1..Len(The(upd.arg)) :
                       \E j \in 1..Len(usable) : The(upd.arg)[i] = expected[j]
                 /\ Len(The(upd.arg)) <= Len(usable)
           /\ cfg.subsetSize = 0 =>
                 IF upd.arg = Nil THEN expected = <<>> ELSE The(upd.arg) = expected

\* update was given, with subsetSize = 0, an instance without an endpoint of
\* the scheme between two that have one, and passed the nodes of these two.
C24_Witness ==
    /\ upd.n = 1
    /\ cfg.subsetSize = 0
    /\ cfg.insecure
    /\ upd.services = <<Ins3, Ins2, Ins1>>
    /\ upd.arg = Some(<<NodeOf(Ins3, TRUE), NodeOf(Ins1, TRUE)>>)

\* --------------------------------------------- claims: blocking bootstrap
\* Next has returned an error to the helper.
HelperFailed == task["helper"].pc \in {"got", "exited"} /\ task["helper"].err # "nil"

\* C25 as claimed: with block, once Next has returned an error to the helper,
\* a newResolver that has returned has stopped the watcher, returned that
\* error and started no background task.
C25_AsClaimed ==
    (cfg.block /\ HelperFailed /\ main.pc = "returned") =>
        /\ main.err = task["helper"].err
        /\ "newResolver" \in w.stopBy
        /\ task["bg"].pc = "off"

\* C25, amended: with block, once Next has returned an error to the helper
\* the helper makes no further call of Next and the background task is never
\* started; a newResolver that has returned has stopped the watcher and
\* returned an error and no resolver: Next's error when it received the
\* helper's result, the context's error when it took the case of the context
\* being done.
C25_BootstrapError ==
    /\ []((cfg.block /\ HelperFailed) =>
            /\ task["bg"].pc = "off"
            /\ main.pc = "returned" =>
                  /\ main.err # "nil"
                  /\ "newResolver" \in w.stopBy
                  /\ main.branch \in {"done", "ctx"}
                  /\ main.branch = "done" => main.err = task["helper"].err
                  /\ main.branch = "ctx" => (ctx # "active" /\ main.err = ctx))
    /\ [][(cfg.block /\ HelperFailed) =>
            /\ task'["helper"].pc \in {"got", "exited"}
            /\ task'["helper"].err = task["helper"].err
            /\ task'["bg"] = task["bg"]]_vars

\* The first Next failed in the registry and newResolver returned its error.
C25_Witness ==
    /\ cfg.block
    /\ task["helper"].pc = "exited"
    /\ task["helper"].err = "RegistryError"
    /\ task["helper"].via = "inFirst"
    /\ main.pc = "returned"
    /\ main.branch = "done"
    /\ main.err = "RegistryError"
    /\ "newResolver" \in w.stopBy
    /\ task["bg"].pc = "off"
    /\ upd.n = 0

\* Task t is calling Next, is inside it, or holds what it returned.
AtNext(t) == task[t].pc \in {"call", "inFirst", "inWait", "got"}

\* C27: Next is never executed by the helper and the background task at the
\* same time: a started background task finds the helper ended (with block,
\* ended after a successful update; without block, never started), and after
\* newResolver returned an error, on the helper's failure or on the context
\* being done, the background task is not started.
C27_OneNextCaller ==
    /\ ~(AtNext("helper") /\ AtNext("bg"))
    /\ task["bg"].pc # "off" =>
          /\ task["helper"].pc = IF cfg.block THEN "exited" ELSE "off"
          /\ task["helper"].err = "nil"
          /\ main.pc = "returned"
          /\ main.err = "nil"
    /\ (main.pc = "returned" /\ main.err # "nil") => task["bg"].pc = "off"

\* After a blocking bootstrap whose helper made two calls of Next, the
\* background task is inside Next.
C27_Witness ==
    /\ cfg.block
    /\ task["helper"].pc = "exited"
    /\ task["helper"].via = "inWait"
    /\ task["bg"].pc = "inWait"

\* ------------------------------------------- claims: retry of the first Next
\* The background task's first call of Next failed while fetching the
\* instances, and the task is about to call Next again.
FirstNextFailed ==
    /\ task["bg"].pc = "sleep"
    /\ task["bg"].via = "inFirst"
    /\ task["bg"].err = "RegistryError"

\* The registry holds an instance of the service with an endpoint of the scheme.
RegistryHasNodes == Filtered(OfService(reg), cfg.insecure) # <<>>

\* C30 as claimed: after the first Next failed while fetching the instances,
\* the retry returns a snapshot that is applied, as long as the registry keeps
\* a non-empty matching set and the watcher is not stopped, without any
\* further change of the registry being needed.
C30_AsClaimed ==
    (FirstNextFailed /\ RegistryHasNodes /\ w.ctx = "active")
        ~> (nApply > 0 \/ ~RegistryHasNodes \/ w.ctx # "active")

\* ---------------------------------------------------------- claims: App.Run
\* The first beforeStart hook that fails, if any.
FailingHooks == {i \in 1..Len(app.beforeStart) : app.beforeStart[i] # "nil"}
FirstFailing == CHOOSE i \in FailingHooks : \A j \in FailingHooks : i <= j

\* C26: Register is called only after every beforeStart hook returned nil and
\* the Start task of every configured server has begun running; if a
\* beforeStart hook fails, no server task is started, Register is not called,
\* and Run returns that hook's error once the hook has run.
C26_RegisterAfterStart ==
    /\ (app.pc = "register" \/ app.registered) =>
          /\ FailingHooks = {}
          /\ app.hook = Len(app.beforeStart) + 1
          /\ \A s \in 1..app.servers : app.srv[s] \in {"begun", "started"}
    /\ FailingHooks # {} =>
          /\ \A s \in Servers : app.srv[s] = "none"
          /\ ~app.registered
          /\ app.pc \in {"build", "hooks", "returned"}
          /\ app.hook <= FirstFailing
          /\ (app.pc = "returned" /\ ~app.buildFails) =>
                app.ret = Some(app.beforeStart[FirstFailing])

\* Register was called after two hooks, with one server's Start task begun
\* and not yet inside srv.Start.
C26_Witness ==
    /\ app.registered
    /\ Len(app.beforeStart) = MaxHooks
    /\ app.servers = MaxServers
    /\ \E s \in Servers : app.srv[s] = "begun"

\* ----------------------------------------------- claims: superseded snapshot
\* The DoneFunc selector p holds was returned by a node that is not in the
\* set the selector holds now.
Superseded(p) ==
    /\ sel[p].done # Nil
    /\ \A i \in 1..Len(CurrentNodes) : CurrentNodes[i].gen # The(sel[p].done).gen

\* C28: a DoneFunc changes the telemetry of the weighted node whose Pick
\* returned it and of no other; invoked after an Apply replaced the set that
\* node belonged to, it leaves every node of the current set as it was, the
\* node with the same address included.
C28_StaleDone ==
    [][tele' # tele =>
         \E p \in Selectors :
            /\ sel[p].done # Nil
            /\ ~sel[p].invoked
            /\ sel'[p].invoked
            /\ LET d == The(sel[p].done)
               IN /\ tele' = [tele EXCEPT ![<<d.gen, d.idx>>] = @ + 1]
                  /\ Superseded(p) =>
                        \A i \in 1..Len(CurrentNodes) :
                           tele'[<<CurrentNodes[i].gen, CurrentNodes[i].idx>>]
                              = tele[<<CurrentNodes[i].gen, CurrentNodes[i].idx>>]]_vars

\* A DoneFunc of the first set was invoked after a second set was stored that
\* has a node of the same address, whose telemetry is untouched.
C28_Witness ==
    \E p \in Selectors :
       /\ sel[p].invoked
       /\ Superseded(p)
       /\ LET d == The(sel[p].done)
          IN /\ tele[<<d.gen, d.idx>>] = 1
             /\ \E i \in 1..Len(CurrentNodes) :
                   /\ CurrentNodes[i].raw.addr = built[d.gen][d.idx].addr
                   /\ tele[<<CurrentNodes[i].gen, CurrentNodes[i].idx>>] = 0

====
